---------------------------- MODULE Spec2Model ----------------------------
(***************************************************************************)
(* A model of the Volza loader, src/load_volza.py: the header mapping      *)
(* (build_mapping over difflib), the column normaliser                     *)
(* (sanitize_column_name, dedupe_columns), the phases of main from the     *)
(* check of the credentials to the final summary (process_file with its    *)
(* rows, the concatenation, create_table and the batch loop of             *)
(* upload_to_mysql) and the type decision of create_table.                 *)
(*                                                                         *)
(* A Python str is a sequence of characters.  An ASCII character is the    *)
(* one-character string of itself; a non-ASCII character is named by its   *)
(* code point ("U+00E9" is e-acute, "U+0130" is capital I with dot above,  *)
(* "U+0307" is the combining dot above).                                   *)
(***************************************************************************)
EXTENDS Integers, Sequences, FiniteSets, TLC

(***************************************************************************)
(* Characters, as Python 3 classifies them (str methods and the re module  *)
(* on str patterns are Unicode-aware).                                     *)
(***************************************************************************)
UpperAlpha ==
  <<"A","B","C","D","E","F","G","H","I","J","K","L","M",
    "N","O","P","Q","R","S","T","U","V","W","X","Y","Z">>

LowerAlpha ==
  <<"a","b","c","d","e","f","g","h","i","j","k","l","m",
    "n","o","p","q","r","s","t","u","v","w","x","y","z">>

DigitChars == {"0","1","2","3","4","5","6","7","8","9"}

\* The characters of the model in code point order: Python compares str
\* values code point by code point.
CodeOrder ==
  <<" ", "$", "%", "(", ")", "-", ".",
    "0","1","2","3","4","5","6","7","8","9", ":", "?">>
  \o UpperAlpha \o <<"[", "]", "_">> \o LowerAlpha
  \o <<"{", "}", "U+00E9", "U+0130", "U+0307">>

Ord(c) == CHOOSE i \in DOMAIN CodeOrder : CodeOrder[i] = c

Range(f) == {f[i] : i \in DOMAIN f}

\* str.isspace / regex \s: the only white space of the model is the blank.
Whitespace == {" "}

\* regex \w on a str pattern: str.isalnum() or "_".  The combining dot
\* U+0307 (category Mn) is neither a word character nor white space.
WordChars ==
  Range(UpperAlpha) \cup Range(LowerAlpha) \cup DigitChars
    \cup {"_", "U+00E9", "U+0130"}

\* regex \d
IsDigit(c) == c \in DigitChars

\* str.lower() of one character.  U+0130 is the one character whose lower
\* case is two characters: "i" followed by U+0307.
LowerChar(c) ==
  IF c \in Range(UpperAlpha)
    THEN <<LowerAlpha[CHOOSE i \in DOMAIN UpperAlpha : UpperAlpha[i] = c]>>
    ELSE IF c = "U+0130" THEN <<"i", "U+0307">> ELSE <<c>>

RECURSIVE Lower(_)
Lower(s) == IF s = <<>> THEN <<>> ELSE LowerChar(Head(s)) \o Lower(Tail(s))

RECURSIVE LStrip(_, _)
LStrip(s, chars) ==
  IF s # <<>> /\ Head(s) \in chars THEN LStrip(Tail(s), chars) ELSE s

RECURSIVE RStrip(_, _)
RStrip(s, chars) ==
  IF s # <<>> /\ s[Len(s)] \in chars
    THEN RStrip(SubSeq(s, 1, Len(s) - 1), chars) ELSE s

\* str.strip(chars); str.strip() is Strip(s, Whitespace)
Strip(s, chars) == RStrip(LStrip(s, chars), chars)

\* str.replace(ch, rep) for every ch of chars, and re.sub of a one-character
\* class: each character of the class becomes rep.
ReplaceEach(s, chars, rep) ==
  [i \in DOMAIN s |-> IF s[i] \in chars THEN rep ELSE s[i]]

\* re.sub(r"[^\w\s]", rep, s)
SubNonWordNonSpace(s, rep) ==
  [i \in DOMAIN s |->
     IF s[i] \notin WordChars /\ s[i] \notin Whitespace THEN rep ELSE s[i]]

\* re.sub(r"C+", rep, s) for a character class C: every maximal run of
\* characters of the class becomes one rep.
RECURSIVE SubRuns(_, _, _)
SubRuns(s, chars, rep) ==
  IF s = <<>> THEN <<>>
  ELSE IF Head(s) \in chars
    THEN <<rep>> \o SubRuns(LStrip(s, chars), chars, rep)
    ELSE <<Head(s)>> \o SubRuns(Tail(s), chars, rep)

(***************************************************************************)
(* Configuration and the two tables of the Schema Mapper.                  *)
(***************************************************************************)
\* FUZZY_MATCH_CUTOFF = 0.80, in hundredths
FUZZY_MATCH_CUTOFF == 80

UNIFIED_SCHEMA ==
  <<
     <<"D","a","t","e">>,
     <<"H","S"," ","C","o","d","e">>,
     <<"P","r","o","d","u","c","t"," ","D","e","s","c","r","i","p","t","i","o","n">>,
     <<"H","S"," ","D","e","s","c","r","i","p","t","i","o","n">>,
     <<"H","S","2">>,
     <<"H","S","4">>,
     <<"M","o","n","t","h">>,
     <<"S","h","i","p","p","e","r"," ","N","a","m","e">>,
     <<"C","o","n","s","i","g","n","e","e"," ","N","a","m","e">>,
     <<"N","o","t","i","f","y"," ","P","a","r","t","y">>,
     <<"S","h","i","p","p","e","r"," ","A","d","d","r","e","s","s","1">>,
     <<"S","h","i","p","p","e","r"," ","A","d","d","r","e","s","s","2">>,
     <<"S","h","i","p","p","e","r"," ","C","i","t","y">>,
     <<"S","h","i","p","p","e","r"," ","S","t","a","t","e">>,
     <<"S","h","i","p","p","e","r"," ","P","i","n","c","o","d","e">>,
     <<"S","h","i","p","p","e","r"," ","P","h","o","n","e">>,
     <<"S","h","i","p","p","e","r"," ","E","m","a","i","l">>,
     <<"S","h","i","p","p","e","r"," ","C","o","n","t","a","c","t"," ","P","e","r","s","o","n">>,
     <<"C","o","n","s","i","g","n","e","e"," ","A","d","d","r","e","s","s"," ","1">>,
     <<"C","o","n","s","i","g","n","e","e"," ","A","d","d","r","e","s","s"," ","2">>,
     <<"C","o","n","s","i","g","n","e","e"," ","C","i","t","y">>,
     <<"C","o","n","s","i","g","n","e","e"," ","S","t","a","t","e">>,
     <<"C","o","n","s","i","g","n","e","e"," ","P","i","n","c","o","d","e">>,
     <<"C","o","n","s","i","g","n","e","e"," ","P","h","o","n","e">>,
     <<"C","o","n","s","i","g","n","e","e"," ","E","-","m","a","i","l">>,
     <<"C","o","n","t","a","c","t"," ","P","e","r","s","o","n">>,
     <<"P","o","r","t"," ","o","f"," ","O","r","i","g","i","n">>,
     <<"P","o","r","t"," ","o","f"," ","D","e","s","t","i","n","a","t","i","o","n">>,
     <<"C","o","u","n","t","r","y"," ","o","f"," ","O","r","i","g","i","n">>,
     <<"C","o","u","n","t","r","y"," ","o","f"," ","D","e","s","t","i","n","a","t","i","o","n">>,
     <<"S","h","i","p","m","e","n","t"," ","M","o","d","e">>,
     <<"S","t","a","n","d","a","r","d"," ","Q","t","y">>,
     <<"S","t","a","n","d","a","r","d"," ","U","n","i","t">>,
     <<"Q","T","Y">>,
     <<"U","n","i","t">>,
     <<"S","t","a","n","d","a","r","d"," ","U","n","i","t"," ","R","a","t","e"," ","$">>,
     <<"E","s","t","i","m","a","t","e","d"," ","F",".","O",".","B"," ","V","a","l","u","e"," ","$">>,
     <<"E","s","t","i","m","a","t","e","d"," ","C","I","F"," ","V","a","l","u","e"," ","$">>,
     <<"E","s","t","i","m","a","t","e","d"," ","U","n","i","t"," ","R","a","t","e"," ","$">>,
     <<"U","n","i","t"," ","R","a","t","e"," ","$">>,
     <<"V","a","l","u","e"," ","i","n"," ","F","C">>,
     <<"R","a","t","e"," ","I","n"," ","F","C">>,
     <<"R","a","t","e"," ","C","u","r","r","e","n","c","y">>,
     <<"L","a","n","d","e","d"," ","V","a","l","u","e"," ","$">>,
     <<"T","a","x"," ","$">>,
     <<"T","a","x"," ","%">>,
     <<"F","r","e","i","g","h","t"," ","V","a","l","u","e"," ","$">>,
     <<"I","n","s","u","r","a","n","c","e"," ","V","a","l","u","e"," ","$">>,
     <<"B","L"," ","T","Y","P">>,
     <<"T","e","r","m","s">>,
     <<"G","r","o","s","s"," ","W","e","i","g","h","t">>,
     <<"G","r","o","s","s"," ","W","e","i","g","h","t"," ","U","n","i","t">>,
     <<"R","a","w"," ","S","h","i","p","p","e","r"," ","N","a","m","e">>,
     <<"R","a","w"," ","C","o","n","s","i","g","n","e","e"," ","N","a","m","e">>,
     <<"R","a","w"," ","S","h","i","p","p","e","r"," ","A","d","d","r","e","s","s","1">>,
     <<"R","a","w"," ","S","h","i","p","p","e","r"," ","A","d","d","r","e","s","s","2">>,
     <<"R","a","w"," ","S","h","i","p","p","e","r"," ","C","i","t","y">>,
     <<"R","a","w"," ","S","h","i","p","p","e","r"," ","S","t","a","t","e">>,
     <<"R","a","w"," ","C","o","n","s","i","g","n","e","e"," ","A","d","d","1">>,
     <<"R","a","w"," ","C","o","n","s","i","g","n","e","e"," ","A","d","d","2">>,
     <<"R","a","w"," ","C","o","n","s","i","g","n","e","e"," ","C","i","t","y">>,
     <<"R","a","w"," ","C","o","n","s","i","g","n","e","e"," ","S","t","a","t","e">>,
     <<"R","a","w"," ","C","o","n","s","i","g","n","e","e"," ","P","i","n","c","o","d","e">>,
     <<"R","a","w"," ","C","o","n","s","i","g","n","e","e"," ","P","h","o","n","e">>,
     <<"R","a","w"," ","C","o","n","s","i","g","n","e","e"," ","E","-","m","a","i","l">>,
     <<"R","a","w"," ","C","o","n","s","i","g","n","e","e"," ","C","o","u","n","t","r","y">>,
     <<"I","s"," ","U","n","i","q","u","e">>,
     <<"I","s","U","n","i","q","u","e">>,
     <<"R","e","c","o","r","d"," ","I","d">>,
     <<"I","E","C">>
  >>

COLUMN_MAPPINGS ==
  <<
     <<<<"s","h","i","p","p","e","r"," ","n","a","m","e">>, <<"S","h","i","p","p","e","r"," ","N","a","m","e">>>>,
     <<<<"s","h","i","p","p","e","r","_","n","a","m","e">>, <<"S","h","i","p","p","e","r"," ","N","a","m","e">>>>,
     <<<<"c","o","n","s","i","g","n","e","e"," ","n","a","m","e">>, <<"C","o","n","s","i","g","n","e","e"," ","N","a","m","e">>>>,
     <<<<"c","o","n","s","i","g","n","e","e","_","n","a","m","e">>, <<"C","o","n","s","i","g","n","e","e"," ","N","a","m","e">>>>,
     <<<<"h","s"," ","c","o","d","e">>, <<"H","S"," ","C","o","d","e">>>>,
     <<<<"p","r","o","d","u","c","t"," ","d","e","s","c","r","i","p","t","i","o","n">>, <<"P","r","o","d","u","c","t"," ","D","e","s","c","r","i","p","t","i","o","n">>>>,
     <<<<"c","o","u","n","t","r","y"," ","o","f"," ","o","r","i","g","i","n">>, <<"C","o","u","n","t","r","y"," ","o","f"," ","O","r","i","g","i","n">>>>,
     <<<<"c","o","u","n","t","r","y"," ","o","f"," ","d","e","s","t","i","n","a","t","i","o","n">>, <<"C","o","u","n","t","r","y"," ","o","f"," ","D","e","s","t","i","n","a","t","i","o","n">>>>,
     <<<<"p","o","r","t"," ","o","f"," ","o","r","i","g","i","n">>, <<"P","o","r","t"," ","o","f"," ","O","r","i","g","i","n">>>>,
     <<<<"p","o","r","t"," ","o","f"," ","d","e","s","t","i","n","a","t","i","o","n">>, <<"P","o","r","t"," ","o","f"," ","D","e","s","t","i","n","a","t","i","o","n">>>>,
     <<<<"s","h","i","p","m","e","n","t"," ","m","o","d","e">>, <<"S","h","i","p","m","e","n","t"," ","M","o","d","e">>>>,
     <<<<"d","a","t","e">>, <<"D","a","t","e">>>>,
     <<<<"m","o","n","t","h">>, <<"M","o","n","t","h">>>>,
     <<<<"q","t","y">>, <<"Q","T","Y">>>>,
     <<<<"u","n","i","t">>, <<"U","n","i","t">>>>,
     <<<<"v","a","l","u","e">>, <<"E","s","t","i","m","a","t","e","d"," ","F",".","O",".","B"," ","V","a","l","u","e"," ","$">>>>,
     <<<<"f","o","b"," ","v","a","l","u","e">>, <<"E","s","t","i","m","a","t","e","d"," ","F",".","O",".","B"," ","V","a","l","u","e"," ","$">>>>,
     <<<<"c","i","f"," ","v","a","l","u","e">>, <<"E","s","t","i","m","a","t","e","d"," ","C","I","F"," ","V","a","l","u","e"," ","$">>>>
  >>

AliasKeys == {COLUMN_MAPPINGS[i][1] : i \in DOMAIN COLUMN_MAPPINGS}

\* COLUMN_MAPPINGS[key]
AliasTarget(key) ==
  COLUMN_MAPPINGS[CHOOSE i \in DOMAIN COLUMN_MAPPINGS :
                    COLUMN_MAPPINGS[i][1] = key][2]

(***************************************************************************)
(* Column Normalizer                                                       *)
(***************************************************************************)
SpecialChars == {"$", "%", ".", "?", "(", ")", "[", "]", "{", "}"}

unnamed == <<"u","n","n","a","m","e","d">>

col_prefix == <<"c","o","l","_">>

\* sanitize_column_name.  Its callers pass a str, for which pd.isna is
\* False: "not raw" is the test for the empty string.
sanitize_column_name(raw) ==
  IF raw = <<>> THEN unnamed
  ELSE
    LET s1 == Strip(raw, Whitespace)
        s2 == ReplaceEach(s1, SpecialChars, "_")
        s3 == SubNonWordNonSpace(s2, "_")
        s4 == SubRuns(s3, Whitespace, "_")
        s5 == Lower(Strip(SubRuns(s4, {"_"}, "_"), {"_"}))
    IN  IF s5 # <<>> /\ IsDigit(s5[1]) THEN col_prefix \o s5
        ELSE IF s5 = <<>> THEN unnamed ELSE s5

normalize_for_matching(col) ==
  LET s1 == Lower(Strip(col, Whitespace))
      s2 == SubNonWordNonSpace(s1, " ")
  IN  Strip(SubRuns(s2, Whitespace, " "), Whitespace)

Digits == <<"0","1","2","3","4","5","6","7","8","9">>

\* str(n) of a natural number
RECURSIVE DecimalStr(_)
DecimalStr(n) ==
  IF n < 10 THEN <<Digits[n + 1]>>
  ELSE DecimalStr(n \div 10) \o <<Digits[(n % 10) + 1]>>

\* An iteration that numbers the later occurrences from 0.
DedupeStepFromZero(seen, out, c) ==
  IF c \in DOMAIN seen
    THEN <<[seen EXCEPT ![c] = @ + 1],
           Append(out, c \o <<"_">> \o DecimalStr(seen[c]))>>
    ELSE <<[k \in DOMAIN seen \cup {c} |-> IF k = c THEN 0 ELSE seen[k]],
           Append(out, c)>>

\* One iteration of the loop of dedupe_columns: the pair <<seen, out>> after
\* the column name c.
DedupeStep(seen, out, c) ==
  IF c \in DOMAIN seen
    THEN <<[seen EXCEPT ![c] = @ + 1],
           Append(out, c \o <<"_">> \o DecimalStr(seen[c] + 1))>>
    ELSE <<[k \in DOMAIN seen \cup {c} |-> IF k = c THEN 0 ELSE seen[k]],
           Append(out, c)>>

RECURSIVE DedupeLoop(_, _, _)
DedupeLoop(cols, seen, out) ==
  IF cols = <<>> THEN out
  ELSE LET r == DedupeStep(seen, out, Head(cols))
       IN  DedupeLoop(Tail(cols), r[1], r[2])

dedupe_columns(cols) == DedupeLoop(cols, <<>>, <<>>)

(***************************************************************************)
(* difflib, as build_mapping uses it: SequenceMatcher(isjunk=None) with    *)
(* a the possibility and b the word.  The automatic junk heuristic needs   *)
(* len(b) >= 200, so no character of a header is junk.  Positions are      *)
(* 1-based and ranges lo..hi inclusive.                                    *)
(***************************************************************************)
SetMax(S) == CHOOSE x \in S : \A y \in S : y <= x
SetMin(S) == CHOOSE x \in S : \A y \in S : x <= y
Min2(x, y) == IF x <= y THEN x ELSE y

\* the length of the longest common run of a[i..ahi] and b[j..bhi] that
\* starts at i and j
RECURSIVE MatchLen(_, _, _, _, _, _)
MatchLen(a, i, ahi, b, j, bhi) ==
  IF i > ahi \/ j > bhi THEN 0
  ELSE IF a[i] # b[j] THEN 0
  ELSE 1 + MatchLen(a, i + 1, ahi, b, j + 1, bhi)

\* SequenceMatcher.find_longest_match: <<besti, bestj, bestsize>>, the
\* longest matching block; of those the one that starts earliest in a, and
\* of those the one that starts earliest in b.
find_longest_match(a, alo, ahi, b, blo, bhi) ==
  LET blocks == {<<i, j, MatchLen(a, i, ahi, b, j, bhi)>> :
                   i \in alo..ahi, j \in blo..bhi}
      size == SetMax({0} \cup {m[3] : m \in blocks})
  IN  IF size = 0 THEN <<alo, blo, 0>>
      ELSE LET longest == {m \in blocks : m[3] = size}
               besti == SetMin({m[1] : m \in longest})
               bestj == SetMin({m[2] : m \in {n \in longest : n[1] = besti}})
           IN  <<besti, bestj, size>>

\* the sum of the sizes of SequenceMatcher.get_matching_blocks(): the
\* longest block, then the same to its left and to its right
RECURSIVE Matches(_, _, _, _, _, _)
Matches(a, alo, ahi, b, blo, bhi) ==
  IF alo > ahi \/ blo > bhi THEN 0
  ELSE LET m == find_longest_match(a, alo, ahi, b, blo, bhi)
           i == m[1]
           j == m[2]
           k == m[3]
       IN  IF k = 0 THEN 0
           ELSE k + Matches(a, alo, i - 1, b, blo, j - 1)
                  + Matches(a, i + k, ahi, b, j + k, bhi)

\* A similarity 2.0*M/T is the pair <<2*M, T>>; _calculate_ratio gives 1.0
\* when T = 0.  Two such quotients of small integers differ, as floats,
\* exactly when they differ as rationals.
Score(matches, length) ==
  IF length = 0 THEN <<1, 1>> ELSE <<2 * matches, length>>

\* SequenceMatcher.ratio()
ratio(a, b) == Score(Matches(a, 1, Len(a), b, 1, Len(b)), Len(a) + Len(b))

Count(s, c) == Cardinality({i \in DOMAIN s : s[i] = c})

RECURSIVE SumOver(_, _, _)
SumOver(S, a, b) ==
  IF S = {} THEN 0
  ELSE LET c == CHOOSE x \in S : TRUE
       IN  Min2(Count(a, c), Count(b, c)) + SumOver(S \ {c}, a, b)

\* SequenceMatcher.quick_ratio(): the multiset intersection of a and b
quick_ratio(a, b) == Score(SumOver(Range(a), a, b), Len(a) + Len(b))

\* SequenceMatcher.real_quick_ratio()
real_quick_ratio(a, b) == Score(Min2(Len(a), Len(b)), Len(a) + Len(b))

\* score > cutoff: the comparison of a matcher that drops the boundary
AboveCutoff(score, cutoff) == score[1] * 100 > cutoff * score[2]

\* score >= cutoff, the cutoff in hundredths
AtLeastCutoff(score, cutoff) == score[1] * 100 >= cutoff * score[2]

ScoreLess(s, t) == s[1] * t[2] < t[1] * s[2]

ScoreEq(s, t) == s[1] * t[2] = t[1] * s[2]

\* x < y for two str values
RECURSIVE StrLess(_, _)
StrLess(x, y) ==
  IF y = <<>> THEN FALSE
  ELSE IF x = <<>> THEN TRUE
  ELSE IF Head(x) # Head(y) THEN Ord(Head(x)) < Ord(Head(y))
  ELSE StrLess(Tail(x), Tail(y))

\* difflib.get_close_matches(word, possibilities, n=1, cutoff): the
\* possibilities that pass the three tests, then heapq.nlargest(1, ...) of
\* the tuples (score, x): the largest score, and of equal scores the
\* largest x.
get_close_matches(word, possibilities, cutoff) ==
  LET quick == {x \in possibilities :
                  /\ AtLeastCutoff(real_quick_ratio(x, word), cutoff)
                  /\ AtLeastCutoff(quick_ratio(x, word), cutoff)}
      scored == {<<ratio(x, word), x>> : x \in quick}
      result == {t \in scored : AtLeastCutoff(t[1], cutoff)}
      Less(t, u) == \/ ScoreLess(t[1], u[1])
                    \/ ScoreEq(t[1], u[1]) /\ StrLess(t[2], u[2])
  IN  IF result = {} THEN <<>>
      ELSE <<(CHOOSE t \in result : \A u \in result \ {t} : Less(u, t))[2]>>

(***************************************************************************)
(* Schema Mapper                                                           *)
(***************************************************************************)
NormOfSchema ==
  [i \in DOMAIN UNIFIED_SCHEMA |-> normalize_for_matching(UNIFIED_SCHEMA[i])]

\* schema_norm = {normalize_for_matching(u): u for u in UNIFIED_SCHEMA}: of
\* two fields with one normalized form the later one is the value.
schema_norm ==
  [k \in Range(NormOfSchema) |->
     UNIFIED_SCHEMA[SetMax({i \in DOMAIN UNIFIED_SCHEMA : NormOfSchema[i] = k})]]

\* The alias table asked with the stripped header as it is, not with its
\* normalized form.
MapTargetRawAlias(raw_str) ==
  LET normalized == normalize_for_matching(raw_str)
      best_matches == get_close_matches(normalized, DOMAIN schema_norm,
                                        FUZZY_MATCH_CUTOFF)
  IN  IF raw_str \in AliasKeys THEN AliasTarget(raw_str)
      ELSE IF normalized \in DOMAIN schema_norm THEN schema_norm[normalized]
      ELSE IF best_matches # <<>> THEN schema_norm[best_matches[1]]
      ELSE raw_str

\* The value build_mapping stores for the stripped header raw_str.
MapTarget(raw_str) ==
  LET normalized == normalize_for_matching(raw_str)
      best_matches == get_close_matches(normalized, DOMAIN schema_norm,
                                        FUZZY_MATCH_CUTOFF)
  IN  IF normalized \in AliasKeys THEN AliasTarget(normalized)
      ELSE IF normalized \in DOMAIN schema_norm THEN schema_norm[normalized]
      ELSE IF best_matches # <<>> THEN schema_norm[best_matches[1]]
      ELSE raw_str

\* mapping[key] = value
SetItem(m, key, value) ==
  [k \in DOMAIN m \cup {key} |-> IF k = key THEN value ELSE m[k]]

\* A loop body that keeps the mapping one-to-one: a field that an earlier
\* header took is not given to a later one.
BuildStepFirstWins(m, raw) ==
  LET raw_str == Strip(raw, Whitespace)
      target == MapTarget(raw_str)
  IN  IF \E k \in DOMAIN m : k # raw_str /\ m[k] = target
        THEN SetItem(m, raw_str, raw_str)
        ELSE SetItem(m, raw_str, target)

\* A loop body without the last branch: a header that no tier matches gets
\* no entry.
BuildStepNoPassThrough(m, raw) ==
  LET raw_str == Strip(raw, Whitespace)
      target == MapTarget(raw_str)
  IN  IF target = raw_str /\ target \notin Range(UNIFIED_SCHEMA)
        THEN m
        ELSE SetItem(m, raw_str, target)

\* One iteration of the loop of build_mapping: the mapping after raw.
BuildStep(m, raw) ==
  LET raw_str == Strip(raw, Whitespace)
  IN  SetItem(m, raw_str, MapTarget(raw_str))

\* mapping.get(col_str, col_str)
MappingGet(m, col_str) == IF col_str \in DOMAIN m THEN m[col_str] ELSE col_str

source_file == <<"s","o","u","r","c","e","_","f","i","l","e">>
source_folder == <<"s","o","u","r","c","e","_","f","o","l","d","e","r">>
processed_timestamp ==
  <<"p","r","o","c","e","s","s","e","d","_","t","i","m","e","s","t","a","m","p">>

\* final_cols of main
FinalCols ==
  [i \in DOMAIN UNIFIED_SCHEMA |-> sanitize_column_name(UNIFIED_SCHEMA[i])]
    \o <<source_file, source_folder, processed_timestamp>>

(***************************************************************************)
(* Cells.  read_excel is called with dtype=str: a cell is a string or is   *)
(* missing.  NULL stands for pd.NA and NaN, and is no string of characters.*)
(***************************************************************************)
NULL == <<"pd.NA">>

\* astype(str) of a cell: pd.NA becomes "<NA>"
AsStr(v) == IF v = NULL THEN <<"<","N","A",">">> ELSE v

\* digits, with single underscores allowed between them
IsDigitPart(s) ==
  /\ s # <<>>
  /\ IsDigit(s[1]) /\ IsDigit(s[Len(s)])
  /\ \A i \in DOMAIN s : IsDigit(s[i]) \/ s[i] = "_"
  /\ \A i \in 1..(Len(s) - 1) : ~(s[i] = "_" /\ s[i + 1] = "_")

\* digits "." digits, either side of the point optional but not both
IsMantissa(s) ==
  LET dots == {i \in DOMAIN s : s[i] = "."}
  IN  IF dots = {} THEN IsDigitPart(s)
      ELSE /\ Cardinality(dots) = 1
           /\ LET p == CHOOSE i \in dots : TRUE
                  left == SubSeq(s, 1, p - 1)
                  right == SubSeq(s, p + 1, Len(s))
              IN  /\ left = <<>> \/ IsDigitPart(left)
                  /\ right = <<>> \/ IsDigitPart(right)
                  /\ left # <<>> \/ right # <<>>

\* s without one leading sign
Unsigned(s) ==
  IF s # <<>> /\ s[1] \in {"+", "-"} THEN Tail(s) ELSE s

\* a mantissa, with an exponent or without one
IsDecimalNumber(s) ==
  LET es == {i \in DOMAIN s : s[i] \in {"e", "E"}}
  IN  IF es = {} THEN IsMantissa(s)
      ELSE /\ Cardinality(es) = 1
           /\ LET p == CHOOSE i \in es : TRUE
              IN  /\ IsMantissa(SubSeq(s, 1, p - 1))
                  /\ IsDigitPart(Unsigned(SubSeq(s, p + 1, Len(s))))

FloatWords ==
  {<<"i","n","f">>, <<"i","n","f","i","n","i","t","y">>, <<"n","a","n">>}

\* float(val.replace(',', '')) does not raise
ParsesAsFloat(val) ==
  LET NotComma(c) == c # ","
      body == Unsigned(Strip(SelectSeq(val, NotComma), Whitespace))
  IN  Lower(body) \in FloatWords \/ IsDecimalNumber(body)

(***************************************************************************)
(* create_table: the type of a column.                                     *)
(***************************************************************************)
\* str_series.head(100)
NUMERIC_SAMPLE == 100

\* the length from which a text column is TEXT, and the size limit of VARCHAR
VARCHAR_LIMIT == 255

\* the smallest size of a VARCHAR column
VARCHAR_FLOOR == 50

Max2(x, y) == IF x >= y THEN x ELSE y

\* a VARCHAR of the longest length itself, without the factor 1.2
TypeDecisionUnscaled(numeric_count, n, max_length) ==
  IF 10 * numeric_count > 8 * Min2(n, NUMERIC_SAMPLE)
    THEN <<"DOUBLE">>
  ELSE IF max_length = 0 THEN <<"TEXT">>
  ELSE IF max_length < VARCHAR_LIMIT
    THEN <<"VARCHAR", Min2(VARCHAR_LIMIT, Max2(VARCHAR_FLOOR, max_length))>>
  ELSE <<"TEXT">>

\* "at least 80%" in the place of "more than 80%"
TypeDecisionAtLeast(numeric_count, n, max_length) ==
  IF 10 * numeric_count >= 8 * Min2(n, NUMERIC_SAMPLE)
    THEN <<"DOUBLE">>
  ELSE IF max_length = 0 THEN <<"TEXT">>
  ELSE IF max_length < VARCHAR_LIMIT
    THEN <<"VARCHAR",
           Min2(VARCHAR_LIMIT, Max2(VARCHAR_FLOOR, (6 * max_length) \div 5))>>
  ELSE <<"TEXT">>

\* Lines 284-294, for a column with n >= 1 non-null values in the sample,
\* numeric_count of the first min(n, 100) parsing as numbers, the longest
\* of max_length characters.  numeric_count / min(n, 100) > 0.8 is a
\* comparison of floats: the quotient is the float nearest to the ratio and
\* 0.8 is the float nearest to 4/5, so it holds exactly when the ratio is
\* more than 4/5.  int(max_length * 1.2) is the integer part of
\* 6 * max_length / 5 for every length below 255.
TypeDecision(numeric_count, n, max_length) ==
  IF 10 * numeric_count > 8 * Min2(n, NUMERIC_SAMPLE)
    THEN <<"DOUBLE">>
  ELSE IF max_length = 0 THEN <<"TEXT">>
  ELSE IF max_length < VARCHAR_LIMIT
    THEN <<"VARCHAR",
           Min2(VARCHAR_LIMIT, Max2(VARCHAR_FLOOR, (6 * max_length) \div 5))>>
  ELSE <<"TEXT">>

\* Lines 264-294: the type of a column from its cells in the sample
ColumnType(cells) ==
  LET NotNull(v) == v # NULL
      series == SelectSeq(cells, NotNull)
      head == SubSeq(series, 1, Min2(Len(series), NUMERIC_SAMPLE))
      numeric_count == Cardinality({i \in DOMAIN head : ParsesAsFloat(head[i])})
      max_length == SetMax({Len(series[i]) : i \in DOMAIN series})
  IN  IF Len(series) = 0 THEN <<"TEXT">>
      ELSE TypeDecision(numeric_count, Len(series), max_length)

(***************************************************************************)
(* Inputs: raw headers as the header row of a sheet gives them, and the    *)
(* header rows of the files of a corpus.                                   *)
(***************************************************************************)
H_ShipperName == <<"S","h","i","p","p","e","r"," ","N","a","m","e">>
H_shipper_name == <<"s","h","i","p","p","e","r","_","n","a","m","e"," ">>
H_SHIPPER_NAME == <<"S","H","I","P","P","E","R"," "," ","N","A","M","E">>
H_TaxDollar == <<"T","a","x"," ","$">>
H_QTY == <<"Q","T","Y">>
H_QdotTdotY == <<"Q",".","T",".","Y">>
H_qty == <<"q","t","y">>
H_qty_1 == <<"q","t","y","_","1">>
H_Value == <<"V","a","l","u","e">>
H_unitxx == <<"u","n","i","t","x","x">>
H_unitxxx == <<"u","n","i","t","x","x","x">>
H_HS == <<"H","S">>
H_Date == <<"D","a","t","e">>

HeaderPool ==
  {H_ShipperName, H_shipper_name, H_SHIPPER_NAME, H_TaxDollar, H_QTY,
   H_QdotTdotY, H_qty_1, H_Value, H_unitxx, H_unitxxx, H_HS}

\* all_headers holds stripped headers
StrippedPool == {Strip(h, Whitespace) : h \in HeaderPool}

\* header rows of files
FilePatterns ==
  {<<H_ShipperName, H_QTY>>,
   <<H_shipper_name, H_unitxxx>>,
   <<H_qty, H_qty_1, H_QTY>>,
   <<H_TaxDollar, H_Date>>}

\* header rows of files that have one data column
SingleColumnPatterns == {<<H_ShipperName>>, <<H_shipper_name>>}

\* the most files of a corpus
MaxFiles == 2

\* the data rows of a file
MaxRows == 1

\* the most headers of the set given to build_mapping
MaxHdrs == 2

\* the longest input of sanitize_column_name
MaxLen == 3

\* the longest input of dedupe_columns
MaxCols == 3

SanitizeAlphabet == {"a", "A", "1", "_", " ", "$", "-", "U+00E9", "U+0130"}

DedupeNames == {H_qty, H_qty_1, <<"u","n","i","t">>}

SeqsUpTo(S, n) == UNION {[1..k -> S] : k \in 0..n}

\* config of the loader
BATCH_SIZE == 25000
MAX_RETRIES == 3

\* upload_to_mysql: sample_size = min(1000, len(df))
SAMPLE_ROWS == 1000

VARIABLES
  pc,            \* the position of main
  creds,         \* DB_USER, DB_PASS and DB_HOST are all set
  folder_exists, \* the input folder exists
  disk,          \* the header rows of the spreadsheet files under the folder
  excel_files,   \* the discovered files, as positions of disk
  ai,            \* analyze_variations: the position in excel_files
  all_headers,   \* analyze_variations: the set of stripped headers
  hdrs_read,     \* the files whose header row analyze_variations read
  todo,          \* build_mapping: the headers the loop has yet to visit
  mapping,       \* the HeaderMapping
  final_cols,    \* the final column list of main
  pi,            \* main: the position in excel_files of the file to process
  dataframes,    \* main: the frames of the files extracted so far
  failed,        \* the files for which process_file logged a failure
  combined_df,   \* main: the combined dataset
  table,         \* the destination table of the database
  db_ops,        \* the statements issued against the destination table
  total_rows,    \* upload_to_mysql: len(df)
  batches,       \*   the number of batches
  batch_num,     \*   the index of the batch of the loop
  retry_count,   \*   the failed attempts of that batch
  successful_uploads, \* the rows counted as uploaded
  attempts,      \*   the batch and the outcome of each attempt, in order
  reported,      \*   what the final report of upload_to_mysql gives
  b_hdrs,        \* two runs of build_mapping: the set both are given
  b_todo,        \*   of each run, the headers yet to visit
  b_order,       \*   of each run, the headers in the order visited
  b_map,         \*   of each run, the mapping
  s_pc, s_raw, s_once, s_twice,  \* sanitize_column_name applied, and again
  d_cols, d_i, d_seen, d_out,    \* the loop of dedupe_columns
  t_pc,          \* create_table on one column: the position
  t_n,           \*   len(str_series): the non-null values of the sample
  t_max,         \*   the length of the longest of them
  t_i,           \*   the values of str_series.head(100) tried so far
  t_numeric,     \*   numeric_count
  t_type,        \*   column_types[col]
  c_df,          \* upload_to_mysql: one column of df, as runs of equal cells
  c_series       \* create_table: the non-null cells of the sample, as runs

loadVars ==
  <<combined_df, table, db_ops, total_rows, batches, batch_num, retry_count,
    successful_uploads, attempts, reported>>
mainVars ==
  <<pc, creds, folder_exists, disk, excel_files, ai, all_headers, hdrs_read,
    todo, mapping, final_cols, pi, dataframes, failed, loadVars>>
buildVars == <<b_hdrs, b_todo, b_order, b_map>>
sanitizeVars == <<s_pc, s_raw, s_once, s_twice>>
dedupeVars == <<d_cols, d_i, d_seen, d_out>>
typeVars == <<t_pc, t_n, t_max, t_i, t_numeric, t_type, c_df, c_series>>
vars == <<mainVars, buildVars, sanitizeVars, dedupeVars, typeVars>>

\* a table left by an earlier run
OldTable ==
  [exists |-> TRUE, columns |-> <<<<"o","l","d">>>>, types |-> <<<<"TEXT">>>>,
   old_rows |-> 1, slices |-> <<>>]

NoTable ==
  [exists |-> FALSE, columns |-> <<>>, types |-> <<>>, old_rows |-> 0,
   slices |-> <<>>]

NoFrame == [columns |-> <<>>, rows |-> <<>>]

LoadIdle ==
  /\ combined_df = NoFrame /\ table = OldTable /\ db_ops = <<>>
  /\ total_rows = 0 /\ batches = 0 /\ batch_num = 0 /\ retry_count = 0
  /\ successful_uploads = 0 /\ attempts = <<>> /\ reported = <<>>

MainIdle ==
  /\ pc = "idle" /\ creds = FALSE /\ folder_exists = FALSE /\ disk = <<>>
  /\ excel_files = <<>> /\ ai = 0 /\ all_headers = {} /\ hdrs_read = {}
  /\ todo = {} /\ mapping = <<>> /\ final_cols = <<>> /\ pi = 0
  /\ dataframes = <<>> /\ failed = {} /\ LoadIdle
BuildIdle ==
  b_hdrs = {} /\ b_todo = <<{}, {}>> /\ b_order = <<<<>>, <<>>>>
    /\ b_map = <<<<>>, <<>>>>
SanitizeIdle == s_pc = "idle" /\ s_raw = <<>> /\ s_once = <<>> /\ s_twice = <<>>
DedupeIdle == d_cols = <<>> /\ d_i = 0 /\ d_seen = <<>> /\ d_out = <<>>
TypesIdle ==
  /\ t_pc = "idle" /\ t_n = 0 /\ t_max = 0 /\ t_i = 0 /\ t_numeric = 0
  /\ t_type = <<>> /\ c_df = <<>> /\ c_series = <<>>

(***************************************************************************)
(* main, from its start to the end of the per-file extraction, on a corpus *)
(* of files of several columns.                                            *)
(***************************************************************************)
Init ==
  /\ pc = "start"
  /\ creds \in BOOLEAN
  /\ folder_exists \in BOOLEAN
  /\ disk \in SeqsUpTo(FilePatterns, MaxFiles)
  /\ excel_files = <<>> /\ ai = 0 /\ all_headers = {} /\ hdrs_read = {}
  /\ todo = {} /\ mapping = <<>> /\ final_cols = <<>> /\ pi = 0
  /\ dataframes = <<>> /\ failed = {} /\ LoadIdle
  /\ BuildIdle /\ SanitizeIdle /\ DedupeIdle /\ TypesIdle

\* if not all([user, pwd, host]): sys.exit(1)
CheckCredentials ==
  /\ pc = "start"
  /\ pc' = IF creds THEN "folder" ELSE "exit1"
  /\ UNCHANGED <<creds, folder_exists, disk, excel_files, ai, all_headers,
                 hdrs_read, todo, mapping, final_cols, pi, dataframes>>
  /\ UNCHANGED <<failed, loadVars, buildVars, sanitizeVars, dedupeVars, typeVars>>

\* if not folder.exists(): sys.exit(1)
CheckFolder ==
  /\ pc = "folder"
  /\ pc' = IF folder_exists THEN "discover" ELSE "exit1"
  /\ UNCHANGED <<creds, folder_exists, disk, excel_files, ai, all_headers,
                 hdrs_read, todo, mapping, final_cols, pi, dataframes>>
  /\ UNCHANGED <<failed, loadVars, buildVars, sanitizeVars, dedupeVars, typeVars>>

\* the positions of S in increasing order
RECURSIVE Ascending(_)
Ascending(S) ==
  IF S = {} THEN <<>> ELSE <<SetMin(S)>> \o Ascending(S \ {SetMin(S)})

\* discover_excel_files: a file that cannot be opened is left out.  The
\* order of disk is the order of the directory walk.
Discover ==
  /\ pc = "discover"
  /\ \E opened \in SUBSET DOMAIN disk :
       /\ excel_files' = Ascending(opened)
       /\ pc' = IF opened = {} THEN "exit1" ELSE "analyze"
  /\ ai' = 1
  /\ UNCHANGED <<creds, folder_exists, disk, all_headers, hdrs_read, todo,
                 mapping, final_cols, pi, dataframes>>
  /\ UNCHANGED <<failed, loadVars, buildVars, sanitizeVars, dedupeVars, typeVars>>

\* key = tuple(str(h).strip() for h in hdrs)
StrippedHeaders(f) == [i \in DOMAIN disk[f] |-> Strip(disk[f][i], Whitespace)]

\* analyze_variations, one file: the header row is read and its stripped
\* headers join all_headers, or the read raises and the file is passed over.
AnalyzeFile ==
  /\ pc = "analyze"
  /\ ai <= Len(excel_files)
  /\ \E read_ok \in BOOLEAN :
       IF read_ok
         THEN /\ all_headers' =
                   all_headers \cup Range(StrippedHeaders(excel_files[ai]))
              /\ hdrs_read' = hdrs_read \cup {excel_files[ai]}
         ELSE UNCHANGED <<all_headers, hdrs_read>>
  /\ ai' = ai + 1
  /\ UNCHANGED <<pc, creds, folder_exists, disk, excel_files, todo, mapping,
                 final_cols, pi, dataframes>>
  /\ UNCHANGED <<failed, loadVars, buildVars, sanitizeVars, dedupeVars, typeVars>>

\* analyze_variations returns all_headers and build_mapping starts
StartBuild ==
  /\ pc = "analyze"
  /\ ai > Len(excel_files)
  /\ pc' = "build"
  /\ todo' = all_headers
  /\ mapping' = <<>>
  /\ UNCHANGED <<creds, folder_exists, disk, excel_files, ai, all_headers,
                 hdrs_read, final_cols, pi, dataframes>>
  /\ UNCHANGED <<failed, loadVars, buildVars, sanitizeVars, dedupeVars, typeVars>>

\* build_mapping, one iteration of "for raw in all_hdrs": a set is iterated
\* in no particular order.
BuildIter ==
  /\ pc = "build"
  /\ \E raw \in todo :
       /\ mapping' = BuildStep(mapping, raw)
       /\ todo' = todo \ {raw}
  /\ UNCHANGED <<pc, creds, folder_exists, disk, excel_files, ai, all_headers,
                 hdrs_read, final_cols, pi, dataframes>>
  /\ UNCHANGED <<failed, loadVars, buildVars, sanitizeVars, dedupeVars, typeVars>>

\* build_mapping returns; main builds final_cols and starts on the files
BuildDone ==
  /\ pc = "build"
  /\ todo = {}
  /\ final_cols' = FinalCols
  /\ pc' = "process"
  /\ pi' = 1
  /\ dataframes' = <<>>
  /\ UNCHANGED <<creds, folder_exists, disk, excel_files, ai, all_headers,
                 hdrs_read, todo, mapping>>
  /\ UNCHANGED <<failed, loadVars, buildVars, sanitizeVars, dedupeVars, typeVars>>

\* the concatenation of the sequences ss[lo], ..., ss[hi]
RECURSIVE Concat(_, _, _)
Concat(ss, lo, hi) ==
  IF lo > hi THEN <<>>
  ELSE IF lo = hi THEN ss[lo]
  ELSE LET mid == (lo + hi) \div 2
       IN  Concat(ss, lo, mid) \o Concat(ss, mid + 1, hi)

\* A loop that adds no column.
AddMissingNone(cols, fcols) == cols

\* the positions of cols at which a label stands for the first time
FirstPositions(cols) ==
  {i \in DOMAIN cols : \A j \in 1..(i - 1) : cols[j] # cols[i]}

\* FirstPositions of the final columns of main, evaluated once
FinalFirstPositions == FirstPositions(FinalCols)

\* for final_col in final_cols: if final_col not in df.columns:
\*     df[final_col] = pd.NA
\* A final column that is missing is appended when the loop first meets it.
AddMissing(cols, fcols) ==
  LET present == Range(cols)
      firsts == IF fcols = FinalCols THEN FinalFirstPositions
                ELSE FirstPositions(fcols)
      added == [i \in DOMAIN fcols |->
                  IF fcols[i] \notin present /\ i \in firsts
                    THEN <<fcols[i]>> ELSE <<>>]
  IN  cols \o Concat(added, 1, Len(fcols))

\* path.name of the file at position f of the walk
FileName(f) == <<"f">> \o DecimalStr(f)

\* the folder label of a file: all files are directly under the folder
FolderLabel == <<"i","n">>

\* pd.Timestamp.now().strftime(...): one run, one second
Timestamp == <<"t","0">>

NumericHeaders == {H_QTY, H_qty, H_qty_1, H_Value}

\* The cell of data row r under header i of file f.  A sheet with a Date
\* column has its header row again as its first data row; a quantity or
\* value column holds numbers; any other cell holds a text that names its
\* file and row.
CellText(f, r, i) ==
  IF r = 1 /\ H_Date \in Range(disk[f]) THEN disk[f][i]
  ELSE IF disk[f][i] \in NumericHeaders THEN DecimalStr(10 * f + r)
  ELSE <<"v">> \o DecimalStr(f) \o <<"r">> \o DecimalStr(r)
         \o <<"c">> \o DecimalStr(i)

\* the data rows read_excel gives for file f, a cell for each header
FileRows(f) ==
  [r \in 1..MaxRows |-> [i \in DOMAIN disk[f] |-> CellText(f, r, i)]]

\* df[wanted], as positions of cols: for each wanted label in turn, the
\* position of every column of that label
SelectPositions(cols, wanted) ==
  LET chosen == [i \in DOMAIN wanted |->
                   Ascending({j \in DOMAIN cols : cols[j] = wanted[i]})]
  IN  Concat(chosen, 1, Len(wanted))

\* lines 238-244: the rows whose cell in the first final column is not the
\* name of that column
DropHeaderRows(columns, rows, fcols) ==
  IF Len(rows) > 0 /\ fcols # <<>> /\ fcols[1] \in Range(columns)
    THEN LET first_pos == SetMin({k \in DOMAIN columns : columns[k] = fcols[1]})
             Kept(row) ==
               Lower(Strip(AsStr(row[first_pos]), Whitespace))
                 # normalize_for_matching(fcols[1])
         IN  SelectSeq(rows, Kept)
    ELSE rows

\* lines 246-249: the three provenance columns are final columns and are in
\* the frame already; the assignments fill them in every row
Stamp(columns, row, f) ==
  [k \in DOMAIN columns |->
     IF columns[k] = source_file THEN FileName(f)
     ELSE IF columns[k] = source_folder THEN FolderLabel
     ELSE IF columns[k] = processed_timestamp THEN Timestamp
     ELSE row[k]]

\* process_file of file f, lines 217-252: the stripped headers, what the
\* mapping gives for them, the new column names, and the columns and the
\* rows of the returned frame.  A row is the sequence of its cells, one for
\* each column of the frame.
Extract(f, m, fcols) ==
  LET raw == StrippedHeaders(f)
      mapped == [i \in DOMAIN raw |-> MappingGet(m, raw[i])]
      new_cols == dedupe_columns(
                    [i \in DOMAIN raw |-> sanitize_column_name(mapped[i])])
      with_missing == AddMissing(new_cols, fcols)
      data == FileRows(f)
      filled == [r \in DOMAIN data |->
                   data[r] \o [k \in 1..(Len(with_missing) - Len(new_cols))
                                 |-> NULL]]
      labels == Range(with_missing)
      InFrame(c) == c \in labels
      available_cols == SelectSeq(fcols, InFrame)
      positions == SelectPositions(with_missing, available_cols)
      columns == [k \in DOMAIN positions |-> with_missing[positions[k]]]
      selected == [r \in DOMAIN filled |->
                     [k \in DOMAIN positions |-> filled[r][positions[k]]]]
      kept == DropHeaderRows(columns, selected, fcols)
  IN  [file |-> f, raw |-> raw, mapped |-> mapped, new_cols |-> new_cols,
       columns |-> columns,
       rows |-> [r \in DOMAIN kept |-> Stamp(columns, kept[r], f)]]

\* mapping.setdefault in the place of mapping.get: a header the mapping
\* lacks is written into it.
ProcessFileSetDefault(outcome) ==
  /\ pc = "process"
  /\ pi <= Len(excel_files)
  /\ IF outcome = "ok"
       THEN LET df == Extract(excel_files[pi], mapping, final_cols)
            IN  /\ dataframes' =
                     IF df.rows = <<>> THEN dataframes
                     ELSE Append(dataframes, df)
                /\ mapping' =
                     [k \in DOMAIN mapping
                              \cup Range(StrippedHeaders(excel_files[pi]))
                        |-> MappingGet(mapping, k)]
       ELSE UNCHANGED <<dataframes, mapping>>
  /\ failed' = IF outcome = "error" THEN failed \cup {excel_files[pi]}
               ELSE failed
  /\ pi' = pi + 1
  /\ UNCHANGED <<pc, creds, folder_exists, disk, excel_files, ai, all_headers,
                 hdrs_read, todo, final_cols>>
  /\ UNCHANGED <<loadVars, buildVars, sanitizeVars, dedupeVars, typeVars>>

\* An except branch that returns the rows read before the failure.
ProcessFileSalvage(outcome) ==
  /\ pc = "process"
  /\ pi <= Len(excel_files)
  /\ LET df == Extract(excel_files[pi], mapping, final_cols)
     IN  dataframes' =
           IF outcome \in {"ok", "error"} /\ df.rows # <<>>
             THEN Append(dataframes, df) ELSE dataframes
  /\ failed' = IF outcome = "error" THEN failed \cup {excel_files[pi]}
               ELSE failed
  /\ pi' = pi + 1
  /\ UNCHANGED <<pc, creds, folder_exists, disk, excel_files, ai, all_headers,
                 hdrs_read, todo, mapping, final_cols>>
  /\ UNCHANGED <<loadVars, buildVars, sanitizeVars, dedupeVars, typeVars>>

\* main, one iteration of the loop over excel_files.  process_file raises,
\* logs the failure and returns None ("error"); or finds no row in the
\* sheet and returns None ("empty"); or returns a frame ("ok"), which main
\* appends to dataframes unless the frame has no row.
ProcessFile(outcome) ==
  /\ pc = "process"
  /\ pi <= Len(excel_files)
  /\ IF outcome = "ok"
       THEN LET df == Extract(excel_files[pi], mapping, final_cols)
            IN  dataframes' =
                  IF df.rows = <<>> THEN dataframes
                  ELSE Append(dataframes, df)
       ELSE UNCHANGED dataframes
  /\ failed' = IF outcome = "error" THEN failed \cup {excel_files[pi]}
               ELSE failed
  /\ pi' = pi + 1
  /\ UNCHANGED <<pc, creds, folder_exists, disk, excel_files, ai, all_headers,
                 hdrs_read, todo, mapping, final_cols>>
  /\ UNCHANGED <<loadVars, buildVars, sanitizeVars, dedupeVars, typeVars>>

\* The destination table is dropped before the check for frames.
ProcessDoneDropFirst ==
  /\ pc = "process"
  /\ pi > Len(excel_files)
  /\ db_ops' = Append(db_ops, [op |-> "DROP", ok |-> TRUE])
  /\ table' = NoTable
  /\ pc' = IF dataframes = <<>> THEN "exit1" ELSE "combine"
  /\ UNCHANGED <<creds, folder_exists, disk, excel_files, ai, all_headers,
                 hdrs_read, todo, mapping, final_cols, pi, dataframes, failed>>
  /\ UNCHANGED <<combined_df, total_rows, batches, batch_num, retry_count,
                 successful_uploads, attempts, reported>>
  /\ UNCHANGED <<buildVars, sanitizeVars, dedupeVars, typeVars>>

\* if not dataframes: sys.exit(1); otherwise the frames are combined
ProcessDone ==
  /\ pc = "process"
  /\ pi > Len(excel_files)
  /\ pc' = IF dataframes = <<>> THEN "exit1" ELSE "combine"
  /\ UNCHANGED <<creds, folder_exists, disk, excel_files, ai, all_headers,
                 hdrs_read, todo, mapping, final_cols, pi, dataframes>>
  /\ UNCHANGED <<failed, loadVars, buildVars, sanitizeVars, dedupeVars, typeVars>>

\* ~columns.duplicated(): the positions of the first column of each label
FirstOfLabel(cols) ==
  LET First(i) == \A j \in 1..(i - 1) : cols[j] # cols[i]
  IN  SelectSeq([i \in DOMAIN cols |-> i], First)

\* df.loc[:, ~df.columns.duplicated()]
DropDuplicateColumns(df) ==
  LET keep == FirstOfLabel(df.columns)
  IN  [columns |-> [k \in DOMAIN keep |-> df.columns[keep[k]]],
       rows |-> [r \in DOMAIN df.rows |->
                   [k \in DOMAIN keep |-> df.rows[r][keep[k]]]]]

\* A concatenation that keeps the rows of the first frame only.
CombineFirstFrame ==
  /\ pc = "combine"
  /\ combined_df' =
       DropDuplicateColumns(
         [columns |-> dataframes[1].columns, rows |-> dataframes[1].rows])
  /\ pc' = "upload"
  /\ UNCHANGED <<creds, folder_exists, disk, excel_files, ai, all_headers,
                 hdrs_read, todo, mapping, final_cols, pi, dataframes, failed>>
  /\ UNCHANGED <<table, db_ops, total_rows, batches, batch_num, retry_count,
                 successful_uploads, attempts, reported>>
  /\ UNCHANGED <<buildVars, sanitizeVars, dedupeVars, typeVars>>

\* main, lines 445-455.  The frames all have the final columns in the order
\* of final_cols; pd.concat of frames of the same columns puts their rows
\* one after the other in the order of dataframes.  Frames that differ in
\* their columns differ by a repeated label, and pd.concat cannot reindex a
\* frame with a repeated label: it raises, and nothing in main catches it.
\* validate_data_quality only logs.
Combine ==
  /\ pc = "combine"
  /\ IF \A i \in DOMAIN dataframes :
          dataframes[i].columns = dataframes[1].columns
       THEN /\ combined_df' =
                 DropDuplicateColumns(
                   [columns |-> dataframes[1].columns,
                    rows |-> Concat([i \in DOMAIN dataframes |->
                                       dataframes[i].rows],
                                    1, Len(dataframes))])
            /\ pc' = "upload"
       ELSE /\ pc' = "raised"
            /\ UNCHANGED combined_df
  /\ UNCHANGED <<creds, folder_exists, disk, excel_files, ai, all_headers,
                 hdrs_read, todo, mapping, final_cols, pi, dataframes, failed>>
  /\ UNCHANGED <<table, db_ops, total_rows, batches, batch_num, retry_count,
                 successful_uploads, attempts, reported>>
  /\ UNCHANGED <<buildVars, sanitizeVars, dedupeVars, typeVars>>

\* create_table, lines 262-298: the type of each column of the sample
ColumnTypes(sample_df) ==
  [k \in DOMAIN sample_df.columns |->
     ColumnType([r \in DOMAIN sample_df.rows |-> sample_df.rows[r][k]])]

\* df.head(n)
HeadRows(df, n) ==
  [columns |-> df.columns, rows |-> SubSeq(df.rows, 1, Min2(n, Len(df.rows)))]

\* the frame upload_to_mysql works on, line 323
UploadFrame == DropDuplicateColumns(combined_df)

\* The table create_table asks for, lines 300-306
NewTable ==
  [exists |-> TRUE, columns |-> UploadFrame.columns,
   types |-> ColumnTypes(HeadRows(UploadFrame, SAMPLE_ROWS)),
   old_rows |-> 0, slices |-> <<>>]

\* A create_table that issues no DROP: CREATE TABLE IF NOT EXISTS finds the
\* table of the earlier run and leaves it as it is.
DropTableSkipped(ok) ==
  /\ pc = "upload"
  /\ pc' = "create"
  /\ UNCHANGED <<table, db_ops>>
  /\ UNCHANGED <<creds, folder_exists, disk, excel_files, ai, all_headers,
                 hdrs_read, todo, mapping, final_cols, pi, dataframes, failed>>
  /\ UNCHANGED <<combined_df, total_rows, batches, batch_num, retry_count,
                 successful_uploads, attempts, reported>>
  /\ UNCHANGED <<buildVars, sanitizeVars, dedupeVars, typeVars>>

\* upload_to_mysql up to line 311 of create_table: DROP TABLE IF EXISTS.
\* The statement is inside no try: when it raises (the connection fails,
\* the statement is refused), the exception leaves create_table,
\* upload_to_mysql and main.
DropTable(ok) ==
  /\ pc = "upload"
  /\ db_ops' = Append(db_ops, [op |-> "DROP", ok |-> ok])
  /\ table' = IF ok THEN NoTable ELSE table
  /\ pc' = IF ok THEN "create" ELSE "raised"
  /\ UNCHANGED <<creds, folder_exists, disk, excel_files, ai, all_headers,
                 hdrs_read, todo, mapping, final_cols, pi, dataframes, failed>>
  /\ UNCHANGED <<combined_df, total_rows, batches, batch_num, retry_count,
                 successful_uploads, attempts, reported>>
  /\ UNCHANGED <<buildVars, sanitizeVars, dedupeVars, typeVars>>

\* math.ceil(total / BATCH_SIZE)
BatchCount(total) == (total + BATCH_SIZE - 1) \div BATCH_SIZE

\* create_table, lines 313-317, and upload_to_mysql, lines 329-335: CREATE
\* TABLE IF NOT EXISTS, which is inside no try either, and the start of the
\* batch loop.
CreateTable(ok) ==
  /\ pc = "create"
  /\ db_ops' = Append(db_ops, [op |-> "CREATE", ok |-> ok])
  /\ IF ok
       THEN /\ table' = IF table.exists THEN table ELSE NewTable
            /\ pc' = "loop"
            /\ total_rows' = Len(UploadFrame.rows)
            /\ batches' = BatchCount(Len(UploadFrame.rows))
            /\ successful_uploads' = 0
            /\ batch_num' = 0
            /\ retry_count' = 0
       ELSE /\ pc' = "raised"
            /\ UNCHANGED <<table, total_rows, batches, successful_uploads,
                           batch_num, retry_count>>
  /\ UNCHANGED <<creds, folder_exists, disk, excel_files, ai, all_headers,
                 hdrs_read, todo, mapping, final_cols, pi, dataframes, failed>>
  /\ UNCHANGED <<combined_df, attempts, reported>>
  /\ UNCHANGED <<buildVars, sanitizeVars, dedupeVars, typeVars>>

\* an end_idx without min(): the last batch runs past the dataset
EndIdxUnclamped(b, total) == b * BATCH_SIZE + BATCH_SIZE

\* start_idx and end_idx of a batch
StartIdx(b) == b * BATCH_SIZE
EndIdx(b, total) == Min2(StartIdx(b) + BATCH_SIZE, total)

\* A loop that gives up the load when a batch has failed MAX_RETRIES times.
BatchAttemptAbort(ok) ==
  /\ pc = "loop"
  /\ batch_num < batches
  /\ retry_count < MAX_RETRIES
  /\ attempts' = Append(attempts, [batch |-> batch_num, ok |-> ok])
  /\ db_ops' = Append(db_ops, [op |-> "INSERT", ok |-> ok])
  /\ IF ok
       THEN /\ table' =
                 [table EXCEPT !.slices =
                    Append(@, <<StartIdx(batch_num),
                                EndIdx(batch_num, total_rows)>>)]
            /\ successful_uploads' =
                 successful_uploads
                   + (EndIdx(batch_num, total_rows) - StartIdx(batch_num))
            /\ batch_num' = batch_num + 1
            /\ retry_count' = 0
       ELSE /\ UNCHANGED <<table, successful_uploads>>
            /\ IF retry_count + 1 >= MAX_RETRIES
                 THEN batch_num' = batches /\ retry_count' = 0
                 ELSE batch_num' = batch_num /\ retry_count' = retry_count + 1
  /\ UNCHANGED <<pc, creds, folder_exists, disk, excel_files, ai, all_headers,
                 hdrs_read, todo, mapping, final_cols, pi, dataframes, failed>>
  /\ UNCHANGED <<combined_df, total_rows, batches, reported>>
  /\ UNCHANGED <<buildVars, sanitizeVars, dedupeVars, typeVars>>

\* A loop that counts the rows of a batch at every attempt.
BatchAttemptCountAll(ok) ==
  /\ pc = "loop"
  /\ batch_num < batches
  /\ retry_count < MAX_RETRIES
  /\ attempts' = Append(attempts, [batch |-> batch_num, ok |-> ok])
  /\ db_ops' = Append(db_ops, [op |-> "INSERT", ok |-> ok])
  /\ successful_uploads' =
       successful_uploads
         + (EndIdx(batch_num, total_rows) - StartIdx(batch_num))
  /\ IF ok
       THEN /\ table' =
                 [table EXCEPT !.slices =
                    Append(@, <<StartIdx(batch_num),
                                EndIdx(batch_num, total_rows)>>)]
            /\ batch_num' = batch_num + 1
            /\ retry_count' = 0
       ELSE /\ UNCHANGED table
            /\ IF retry_count + 1 >= MAX_RETRIES
                 THEN batch_num' = batch_num + 1 /\ retry_count' = 0
                 ELSE batch_num' = batch_num /\ retry_count' = retry_count + 1
  /\ UNCHANGED <<pc, creds, folder_exists, disk, excel_files, ai, all_headers,
                 hdrs_read, todo, mapping, final_cols, pi, dataframes, failed>>
  /\ UNCHANGED <<combined_df, total_rows, batches, reported>>
  /\ UNCHANGED <<buildVars, sanitizeVars, dedupeVars, typeVars>>

\* A loop without retry: an attempt that fails ends the batch.
BatchAttemptNoRetry(ok) ==
  /\ pc = "loop"
  /\ batch_num < batches
  /\ retry_count < MAX_RETRIES
  /\ attempts' = Append(attempts, [batch |-> batch_num, ok |-> ok])
  /\ db_ops' = Append(db_ops, [op |-> "INSERT", ok |-> ok])
  /\ IF ok
       THEN /\ table' =
                 [table EXCEPT !.slices =
                    Append(@, <<StartIdx(batch_num),
                                EndIdx(batch_num, total_rows)>>)]
            /\ successful_uploads' =
                 successful_uploads
                   + (EndIdx(batch_num, total_rows) - StartIdx(batch_num))
       ELSE UNCHANGED <<table, successful_uploads>>
  /\ batch_num' = batch_num + 1
  /\ retry_count' = 0
  /\ UNCHANGED <<pc, creds, folder_exists, disk, excel_files, ai, all_headers,
                 hdrs_read, todo, mapping, final_cols, pi, dataframes, failed>>
  /\ UNCHANGED <<combined_df, total_rows, batches, reported>>
  /\ UNCHANGED <<buildVars, sanitizeVars, dedupeVars, typeVars>>

\* upload_to_mysql, lines 337-363: one attempt, one call of to_sql, for the
\* batch batch_num.  to_sql inserts inside one transaction: an attempt that
\* raises leaves the table as it was.  After an attempt that succeeds, and
\* after the attempt number MAX_RETRIES that fails, the loop is at the next
\* batch.
BatchAttempt(ok) ==
  /\ pc = "loop"
  /\ batch_num < batches
  /\ retry_count < MAX_RETRIES
  /\ attempts' = Append(attempts, [batch |-> batch_num, ok |-> ok])
  /\ db_ops' = Append(db_ops, [op |-> "INSERT", ok |-> ok])
  /\ IF ok
       THEN /\ table' =
                 [table EXCEPT !.slices =
                    Append(@, <<StartIdx(batch_num),
                                EndIdx(batch_num, total_rows)>>)]
            /\ successful_uploads' =
                 successful_uploads
                   + (EndIdx(batch_num, total_rows) - StartIdx(batch_num))
            /\ batch_num' = batch_num + 1
            /\ retry_count' = 0
       ELSE /\ UNCHANGED <<table, successful_uploads>>
            /\ IF retry_count + 1 >= MAX_RETRIES
                 THEN batch_num' = batch_num + 1 /\ retry_count' = 0
                 ELSE batch_num' = batch_num /\ retry_count' = retry_count + 1
  /\ UNCHANGED <<pc, creds, folder_exists, disk, excel_files, ai, all_headers,
                 hdrs_read, todo, mapping, final_cols, pi, dataframes, failed>>
  /\ UNCHANGED <<combined_df, total_rows, batches, reported>>
  /\ UNCHANGED <<buildVars, sanitizeVars, dedupeVars, typeVars>>

\* upload_to_mysql, line 365: the final report, and the return to main
UploadComplete ==
  /\ pc = "loop"
  /\ batch_num = batches
  /\ reported' = <<successful_uploads, total_rows>>
  /\ pc' = "summary"
  /\ UNCHANGED <<creds, folder_exists, disk, excel_files, ai, all_headers,
                 hdrs_read, todo, mapping, final_cols, pi, dataframes, failed>>
  /\ UNCHANGED <<combined_df, table, db_ops, total_rows, batches, batch_num,
                 retry_count, successful_uploads, attempts>>
  /\ UNCHANGED <<buildVars, sanitizeVars, dedupeVars, typeVars>>

\* main, lines 461-469: the final summary; main returns
FinalSummary ==
  /\ pc = "summary"
  /\ pc' = "done"
  /\ UNCHANGED <<creds, folder_exists, disk, excel_files, ai, all_headers,
                 hdrs_read, todo, mapping, final_cols, pi, dataframes>>
  /\ UNCHANGED <<failed, loadVars, buildVars, sanitizeVars, dedupeVars, typeVars>>

Next ==
  \/ CheckCredentials
  \/ CheckFolder
  \/ Discover
  \/ AnalyzeFile
  \/ StartBuild
  \/ BuildIter
  \/ BuildDone
  \/ \E outcome \in {"error", "empty", "ok"} : ProcessFile(outcome)
  \/ ProcessDone

Spec == Init /\ [][Next]_vars

(***************************************************************************)
(* main from its start to its end, on a corpus of files of one data column.*)
(***************************************************************************)
InitRun ==
  /\ pc = "start"
  /\ creds \in BOOLEAN
  /\ folder_exists \in BOOLEAN
  /\ disk \in SeqsUpTo(SingleColumnPatterns, MaxFiles)
  /\ excel_files = <<>> /\ ai = 0 /\ all_headers = {} /\ hdrs_read = {}
  /\ todo = {} /\ mapping = <<>> /\ final_cols = <<>> /\ pi = 0
  /\ dataframes = <<>> /\ failed = {} /\ LoadIdle
  /\ BuildIdle /\ SanitizeIdle /\ DedupeIdle /\ TypesIdle

NextRun ==
  \/ Next
  \/ Combine
  \/ \E ok \in BOOLEAN : DropTable(ok)
  \/ \E ok \in BOOLEAN : CreateTable(ok)
  \/ \E ok \in BOOLEAN : BatchAttempt(ok)
  \/ UploadComplete
  \/ FinalSummary

SpecRun == InitRun /\ [][NextRun]_vars

(***************************************************************************)
(* The batch loop of upload_to_mysql, lines 329-365, on a dataset known by *)
(* its number of rows, from the state create_table leaves.                 *)
(***************************************************************************)
\* the most batches of a dataset
MaxBatches == 3

UploadSizes ==
  {1, BATCH_SIZE, MaxBatches * BATCH_SIZE}
    \cup {k * BATCH_SIZE + 1 : k \in 1..(MaxBatches - 1)}

\* the table after create_table, its columns left out
EmptyTable ==
  [exists |-> TRUE, columns |-> <<>>, types |-> <<>>, old_rows |-> 0,
   slices |-> <<>>]

InitUpload ==
  /\ pc = "loop"
  /\ total_rows \in UploadSizes
  /\ batches = BatchCount(total_rows)
  /\ successful_uploads = 0 /\ batch_num = 0 /\ retry_count = 0
  /\ attempts = <<>> /\ reported = <<>>
  /\ table = EmptyTable
  /\ db_ops = <<[op |-> "DROP", ok |-> TRUE], [op |-> "CREATE", ok |-> TRUE]>>
  /\ combined_df = NoFrame
  /\ creds = TRUE /\ folder_exists = TRUE /\ disk = <<>>
  /\ excel_files = <<>> /\ ai = 0 /\ all_headers = {} /\ hdrs_read = {}
  /\ todo = {} /\ mapping = <<>> /\ final_cols = <<>> /\ pi = 0
  /\ dataframes = <<>> /\ failed = {}
  /\ BuildIdle /\ SanitizeIdle /\ DedupeIdle /\ TypesIdle

NextUpload == (\E ok \in BOOLEAN : BatchAttempt(ok)) \/ UploadComplete

SpecUpload == InitUpload /\ [][NextUpload]_vars

\* The loop is sequential code: a call of to_sql returns or raises, a sleep
\* ends, and the statement after it runs.
FairSpecUpload == SpecUpload /\ WF_vars(NextUpload)

(***************************************************************************)
(* build_mapping run twice on one set of headers, each run with an         *)
(* iteration order of its own.                                             *)
(***************************************************************************)
InitBuild ==
  /\ b_hdrs \in {S \in SUBSET StrippedPool : Cardinality(S) <= MaxHdrs}
  /\ b_todo = <<b_hdrs, b_hdrs>>
  /\ b_order = <<<<>>, <<>>>>
  /\ b_map = <<<<>>, <<>>>>
  /\ MainIdle /\ SanitizeIdle /\ DedupeIdle /\ TypesIdle

BuildRun(r) ==
  /\ \E raw \in b_todo[r] :
       /\ b_map' = [b_map EXCEPT ![r] = BuildStep(@, raw)]
       /\ b_todo' = [b_todo EXCEPT ![r] = @ \ {raw}]
       /\ b_order' = [b_order EXCEPT ![r] = Append(@, raw)]
  /\ UNCHANGED <<b_hdrs, mainVars, sanitizeVars, dedupeVars, typeVars>>

NextBuild == \E r \in {1, 2} : BuildRun(r)

SpecBuild == InitBuild /\ [][NextBuild]_vars

BuildsDone == b_todo[1] = {} /\ b_todo[2] = {}

(***************************************************************************)
(* sanitize_column_name applied to a header, and to its own result.        *)
(***************************************************************************)
InitSanitize ==
  /\ s_pc = "raw"
  /\ s_raw \in SeqsUpTo(SanitizeAlphabet, MaxLen)
  /\ s_once = <<>> /\ s_twice = <<>>
  /\ MainIdle /\ BuildIdle /\ DedupeIdle /\ TypesIdle

SanitizeOnce ==
  /\ s_pc = "raw"
  /\ s_once' = sanitize_column_name(s_raw)
  /\ s_pc' = "once"
  /\ UNCHANGED <<s_raw, s_twice, mainVars, buildVars, dedupeVars, typeVars>>

SanitizeTwice ==
  /\ s_pc = "once"
  /\ s_twice' = sanitize_column_name(s_once)
  /\ s_pc' = "twice"
  /\ UNCHANGED <<s_raw, s_once, mainVars, buildVars, dedupeVars, typeVars>>

NextSanitize == SanitizeOnce \/ SanitizeTwice

SpecSanitize == InitSanitize /\ [][NextSanitize]_vars

(***************************************************************************)
(* dedupe_columns on a list of column names, one loop iteration a step.    *)
(***************************************************************************)
InitDedupe ==
  /\ d_cols \in SeqsUpTo(DedupeNames, MaxCols)
  /\ d_i = 1 /\ d_seen = <<>> /\ d_out = <<>>
  /\ MainIdle /\ BuildIdle /\ SanitizeIdle /\ TypesIdle

DedupeIter ==
  /\ d_i <= Len(d_cols)
  /\ LET r == DedupeStep(d_seen, d_out, d_cols[d_i])
     IN  d_seen' = r[1] /\ d_out' = r[2]
  /\ d_i' = d_i + 1
  /\ UNCHANGED <<d_cols, mainVars, buildVars, sanitizeVars, typeVars>>

NextDedupe == DedupeIter

SpecDedupe == InitDedupe /\ [][NextDedupe]_vars

DedupeDone == d_i > Len(d_cols)

(***************************************************************************)
(* create_table on one column of the sample, lines 264-294: a step for     *)
(* each value of str_series.head(100), then the decision.                  *)
(***************************************************************************)
\* the most non-null values of a column of the sample
MaxSample == 101

SampleSizes == {0, 1, 5, NUMERIC_SAMPLE, MaxSample}

\* the lengths of the longest value
SampleLengths ==
  {0, 1, 41, 42, 43, 212, 213, VARCHAR_LIMIT - 1, VARCHAR_LIMIT,
   VARCHAR_LIMIT + 1}

InitTypes ==
  /\ t_pc = "count"
  /\ t_n \in SampleSizes
  /\ t_max \in SampleLengths
  /\ t_i = 0 /\ t_numeric = 0 /\ t_type = <<>>
  /\ c_df = <<>> /\ c_series = <<>>
  /\ MainIdle /\ BuildIdle /\ SanitizeIdle /\ DedupeIdle

\* for val in str_series.head(100): float(...) raises or does not.  The
\* empty string does not parse, so a column whose longest value is empty
\* has no value that parses.
CountValue(parses) ==
  /\ t_pc = "count"
  /\ t_i < Min2(t_n, NUMERIC_SAMPLE)
  /\ parses => t_max > 0
  /\ t_i' = t_i + 1
  /\ t_numeric' = IF parses THEN t_numeric + 1 ELSE t_numeric
  /\ UNCHANGED <<t_pc, t_n, t_max, t_type, c_df, c_series>>
  /\ UNCHANGED <<mainVars, buildVars, sanitizeVars, dedupeVars>>

\* lines 267-269 and 284-294
DecideType ==
  /\ t_pc = "count"
  /\ t_i = Min2(t_n, NUMERIC_SAMPLE)
  /\ t_type' = IF t_n = 0 THEN <<"TEXT">>
               ELSE TypeDecision(t_numeric, t_n, t_max)
  /\ t_pc' = "done"
  /\ UNCHANGED <<t_n, t_max, t_i, t_numeric, c_df, c_series>>
  /\ UNCHANGED <<mainVars, buildVars, sanitizeVars, dedupeVars>>

NextTypes == (\E parses \in BOOLEAN : CountValue(parses)) \/ DecideType

SpecTypes == InitTypes /\ [][NextTypes]_vars

(***************************************************************************)
(* upload_to_mysql and create_table on one column of a dataset of more     *)
(* rows than the sample has, lines 325-327 and 264-294.  The column is a   *)
(* sequence of runs: n rows in a row that hold the same cell.              *)
(***************************************************************************)
\* the most runs of the column
MaxRuns == 3

RunLengths == {1, NUMERIC_SAMPLE, SAMPLE_ROWS - 1, SAMPLE_ROWS}

\* a missing cell, a number, a text
SampleCells == {NULL, <<"7">>, <<"a","b">>}

RunSet == [n : RunLengths, cell : SampleCells]

\* len() of a column of runs
RECURSIVE RowsOfRuns(_)
RowsOfRuns(runs) ==
  IF runs = <<>> THEN 0 ELSE runs[1].n + RowsOfRuns(Tail(runs))

\* head(k) of a column of runs
RECURSIVE HeadRuns(_, _)
HeadRuns(runs, k) ==
  IF runs = <<>> \/ k <= 0 THEN <<>>
  ELSE IF runs[1].n >= k THEN <<[n |-> k, cell |-> runs[1].cell]>>
  ELSE <<runs[1]>> \o HeadRuns(Tail(runs), k - runs[1].n)

\* dropna() of a column of runs
DropNaRuns(runs) ==
  LET NotNull(r) == r.cell # NULL
  IN  SelectSeq(runs, NotNull)

\* the rows of a column of runs whose value float() accepts
RECURSIVE NumericRows(_)
NumericRows(runs) ==
  IF runs = <<>> THEN 0
  ELSE (IF ParsesAsFloat(AsStr(runs[1].cell)) THEN runs[1].n ELSE 0)
         + NumericRows(Tail(runs))

InitSample ==
  /\ c_df \in SeqsUpTo(RunSet, MaxRuns) \ {<<>>}
  /\ c_series = <<>>
  /\ t_pc = "sample"
  /\ t_n = 0 /\ t_max = 0 /\ t_i = 0 /\ t_numeric = 0 /\ t_type = <<>>
  /\ MainIdle /\ BuildIdle /\ SanitizeIdle /\ DedupeIdle

\* The whole column as the sample: no head(sample_size).
SampleColumnWhole ==
  /\ t_pc = "sample"
  /\ c_series' = DropNaRuns(c_df)
  /\ t_n' = RowsOfRuns(c_series')
  /\ t_pc' = "decide"
  /\ UNCHANGED <<t_max, t_i, t_numeric, t_type, c_df>>
  /\ UNCHANGED <<mainVars, buildVars, sanitizeVars, dedupeVars>>

\* lines 326-327 and 265: df.head(min(1000, len(df))), then dropna()
SampleColumn ==
  /\ t_pc = "sample"
  /\ LET sample_size == Min2(SAMPLE_ROWS, RowsOfRuns(c_df))
     IN  c_series' = DropNaRuns(HeadRuns(c_df, sample_size))
  /\ t_n' = RowsOfRuns(c_series')
  /\ t_pc' = "decide"
  /\ UNCHANGED <<t_max, t_i, t_numeric, t_type, c_df>>
  /\ UNCHANGED <<mainVars, buildVars, sanitizeVars, dedupeVars>>

\* lines 267-294: TEXT for a column without a value in the sample, else the
\* count over str_series.head(100), the longest value and the decision
DecideColumn ==
  /\ t_pc = "decide"
  /\ IF t_n = 0
       THEN /\ t_type' = <<"TEXT">>
            /\ UNCHANGED <<t_i, t_numeric, t_max>>
       ELSE LET head == HeadRuns(c_series, NUMERIC_SAMPLE)
                numeric_count == NumericRows(head)
                max_length ==
                  SetMax({Len(AsStr(c_series[r].cell)) : r \in DOMAIN c_series})
            IN  /\ t_i' = RowsOfRuns(head)
                /\ t_numeric' = numeric_count
                /\ t_max' = max_length
                /\ t_type' = TypeDecision(numeric_count, t_n, max_length)
  /\ t_pc' = "done"
  /\ UNCHANGED <<t_n, c_df, c_series>>
  /\ UNCHANGED <<mainVars, buildVars, sanitizeVars, dedupeVars>>

NextSample == SampleColumn \/ DecideColumn

SpecSample == InitSample /\ [][NextSample]_vars

(***************************************************************************)
(* Properties of the Schema Mapper, under SpecBuild.                       *)
(***************************************************************************)
Key(raw) == Strip(raw, Whitespace)
Norm(raw) == normalize_for_matching(Key(raw))

\* C1: build_mapping is deterministic and independent of the order in which
\* the set of headers is iterated: two runs on one set, each in an order of
\* its own, end with equal mappings (the same keys, the same value for each).
BuildOrderIndependent == BuildsDone => b_map[1] = b_map[2]

BuildOrderIndependentWitness ==
  /\ BuildsDone
  /\ Cardinality(b_hdrs) >= 2
  /\ b_order[1] # b_order[2]
  /\ DOMAIN b_map[1] = {Key(h) : h \in b_hdrs}

\* C3: a raw header whose normalized form is that of a UnifiedField U, and is
\* no key of the alias table, is mapped to U; so every UnifiedField used as
\* a raw header is mapped to itself.
NormalizedExactMatch ==
  BuildsDone =>
    \A raw \in b_hdrs : \A i \in DOMAIN UNIFIED_SCHEMA :
      (Norm(raw) = NormOfSchema[i] /\ Norm(raw) \notin AliasKeys)
        => b_map[1][Key(raw)] = UNIFIED_SCHEMA[i]

\* a header without its case, white space and punctuation
Skeleton(s) ==
  LET IsAlnum(c) == c \in WordChars \ {"_"}
  IN  SelectSeq(Lower(s), IsAlnum)

\* the UnifiedField a header is mapped to, <<>> for a header left unmapped
FieldOf(m, raw) ==
  IF m[Key(raw)] \in Range(UNIFIED_SCHEMA) THEN m[Key(raw)] ELSE <<>>

\* C4: two raw headers that differ only in letter case, white space or
\* punctuation (the underscore included) are mapped to the same target: one
\* UnifiedField, or both left unmapped.
VariantCollapse ==
  BuildsDone =>
    \A g \in b_hdrs : \A h \in b_hdrs :
      Skeleton(g) = Skeleton(h) => FieldOf(b_map[1], g) = FieldOf(b_map[1], h)

\* C5: the three tiers in strict priority: a normalized header that is an
\* alias key gets the alias target; otherwise one that is a normalized
\* UnifiedField gets that field; otherwise the fuzzy match decides, and the
\* header is mapped to itself only when the fuzzy match finds nothing.
ThreeTierPriority ==
  BuildsDone =>
    \A raw \in b_hdrs :
      LET n == Norm(raw)
          v == b_map[1][Key(raw)]
          fuzzy == get_close_matches(n, DOMAIN schema_norm, FUZZY_MATCH_CUTOFF)
      IN  IF n \in AliasKeys THEN v = AliasTarget(n)
          ELSE IF n \in DOMAIN schema_norm THEN v = schema_norm[n]
          ELSE IF fuzzy # <<>> THEN v = schema_norm[fuzzy[1]]
          ELSE v = Key(raw)

\* the alias tier decides for "Value", which the later tiers would have
\* left unmapped
ThreeTierPriorityWitness ==
  /\ BuildsDone
  /\ H_Value \in b_hdrs
  /\ Norm(H_Value) \in AliasKeys
  /\ Norm(H_Value) \notin DOMAIN schema_norm
  /\ get_close_matches(Norm(H_Value), DOMAIN schema_norm, FUZZY_MATCH_CUTOFF)
       = <<>>
  /\ b_map[1][H_Value] = AliasTarget(Norm(H_Value))
  /\ b_map[1][H_Value] # H_Value

\* the best similarity of a normalized header to the normalized fields, for
\* the headers of the pool
BestSimilarity ==
  [n \in {Norm(h) : h \in HeaderPool} |->
     LET scores == {ratio(k, n) : k \in DOMAIN schema_norm}
     IN  CHOOSE s \in scores : \A t \in scores : ~ScoreLess(s, t)]

\* C6: a header that reaches the fuzzy tier is mapped to a UnifiedField of
\* the highest similarity 2*M/T exactly when that similarity is at least
\* 0.80 = 4/5, and to itself when it is below.
FuzzyCutoffBoundary ==
  BuildsDone =>
    \A raw \in b_hdrs :
      LET n == Norm(raw)
          v == b_map[1][Key(raw)]
          best == BestSimilarity[n]
      IN  (n \notin AliasKeys /\ n \notin DOMAIN schema_norm) =>
            IF best[1] * 5 >= best[2] * 4
              THEN /\ v \in Range(UNIFIED_SCHEMA)
                   /\ ScoreEq(ratio(normalize_for_matching(v), n), best)
              ELSE v = Key(raw) /\ v \notin Range(UNIFIED_SCHEMA)

\* "unitxx" is at 8/10 from "unit" and is mapped to Unit; "unitxxx" is at
\* 8/11 and keeps its name
FuzzyCutoffBoundaryWitness ==
  /\ BuildsDone
  /\ H_unitxx \in b_hdrs /\ H_unitxxx \in b_hdrs
  /\ BestSimilarity[H_unitxx] = <<8, 10>>
  /\ BestSimilarity[H_unitxxx] = <<8, 11>>
  /\ b_map[1][H_unitxx] = <<"U","n","i","t">>
  /\ b_map[1][H_unitxxx] = H_unitxxx

(***************************************************************************)
(* Properties of the run, under Spec.                                      *)
(***************************************************************************)
\* build_mapping has returned
MappingBuilt == pi >= 1

\* C2, as stated: once the mapping is built, every stripped header of every
\* discovered file is a key of it, with a UnifiedField or itself as value.
MappingTotalOverDiscovered ==
  MappingBuilt =>
    \A i \in DOMAIN excel_files :
      \A h \in Range(StrippedHeaders(excel_files[i])) :
        /\ h \in DOMAIN mapping
        /\ mapping[h] \in Range(UNIFIED_SCHEMA) \/ mapping[h] = h

\* C2, amended: once the mapping is built, every stripped header of every
\* discovered file whose header row analyze_variations read is a key of it,
\* with a UnifiedField or itself as value.
MappingTotalOverRead ==
  MappingBuilt =>
    \A f \in hdrs_read :
      \A h \in Range(StrippedHeaders(f)) :
        /\ h \in DOMAIN mapping
        /\ mapping[h] \in Range(UNIFIED_SCHEMA) \/ mapping[h] = h

\* process_file has looked up a header mapped to a field and a header
\* mapped to itself, of a file whose header row was read
MappingTotalWitness ==
  /\ pc = "combine"
  /\ \E d \in Range(dataframes) :
       /\ d.file \in hdrs_read
       /\ \E i \in DOMAIN d.raw :
            /\ d.raw[i] \in DOMAIN mapping
            /\ d.mapped[i] = d.raw[i]
            /\ d.raw[i] \notin Range(UNIFIED_SCHEMA)
       /\ \E j \in DOMAIN d.raw :
            /\ d.mapped[j] \in Range(UNIFIED_SCHEMA)
            /\ d.mapped[j] # d.raw[j]

\* C7: the mapping is built once, after the header rows of all files were
\* visited and before the first file is processed; no later step changes
\* it; and a raw header is resolved to one target in whatever extracted
\* files it occurs, in whatever order the files are processed.
CorpusWideConsistency ==
  [][/\ pc' = "process" =>
          /\ ai' > Len(excel_files')
          /\ todo' = {} /\ DOMAIN mapping' = all_headers'
     /\ pc \in {"process", "combine", "exit1"} =>
          /\ mapping' = mapping
          /\ pc' \in {"process", "combine", "exit1"}
     /\ \A d \in Range(dataframes') : \A e \in Range(dataframes') :
          \A i \in DOMAIN d.raw : \A j \in DOMAIN e.raw :
            d.raw[i] = e.raw[j] => d.mapped[i] = e.mapped[j]]_vars

\* two files with a header of their own and one header in common, at
\* different places, have both been extracted
CorpusWideConsistencyWitness ==
  /\ pc = "combine"
  /\ \E d \in Range(dataframes) : \E e \in Range(dataframes) :
       /\ d.file # e.file
       /\ d.raw # e.raw
       /\ \E i \in DOMAIN d.raw : \E j \in DOMAIN e.raw :
            i # j /\ d.raw[i] = e.raw[j] /\ d.mapped[i] = e.mapped[j]

(***************************************************************************)
(* Properties of the Column Normalizer, under SpecSanitize and SpecDedupe. *)
(***************************************************************************)
IdentifierChars == Range(LowerAlpha) \cup DigitChars \cup {"_"}

\* C8: for every input, sanitize_column_name returns a non-empty string of
\* lowercase letters a-z, digits and underscores that does not start with a
\* digit.
IdentifierGrammar ==
  s_pc \in {"once", "twice"} =>
    /\ s_once # <<>>
    /\ \A i \in DOMAIN s_once : s_once[i] \in IdentifierChars
    /\ s_once[1] \notin DigitChars

\* C9: sanitize_column_name applied to its own result returns that result.
SanitizeIdempotent == s_pc = "twice" => s_twice = s_once

\* C10: the list dedupe_columns returns is as long as its input and its
\* entries are pairwise distinct.
DedupeUnique ==
  DedupeDone =>
    /\ Len(d_out) = Len(d_cols)
    /\ \A i \in DOMAIN d_out : \A j \in DOMAIN d_out :
         i # j => d_out[i] # d_out[j]

(***************************************************************************)
(* Properties of the Row Extractor, under Spec.                            *)
(***************************************************************************)
ProvenanceCols == {source_file, source_folder, processed_timestamp}

\* the frame d has the final columns and no other
HasFinalColumns(d) == Range(d.columns) = Range(final_cols)

\* C11 as the specification states it: a frame that process_file returns has
\* the final columns and no other, and a final column that is not among the
\* new column names of the file is null in every row of the frame.
RowAlignment ==
  \A n \in DOMAIN dataframes :
    LET d == dataframes[n]
    IN  /\ HasFinalColumns(d)
        /\ \A k \in DOMAIN d.columns :
             d.columns[k] \notin Range(d.new_cols)
               => \A r \in DOMAIN d.rows : d.rows[r][k] = NULL

\* C11, amended: a frame that process_file returns has the final columns
\* and no other; a final column that is not among the new column names of
\* the file and is no provenance column is null in every row; and the three
\* provenance columns hold, in every row, the name of the file, the label
\* of its folder and the time of processing.
RowAlignmentOfData ==
  \A n \in DOMAIN dataframes :
    LET d == dataframes[n]
    IN  /\ HasFinalColumns(d)
        /\ \A k \in DOMAIN d.columns : \A r \in DOMAIN d.rows :
             /\ d.columns[k] \notin Range(d.new_cols) \cup ProvenanceCols
                  => d.rows[r][k] = NULL
             /\ d.columns[k] = source_file => d.rows[r][k] = FileName(d.file)
             /\ d.columns[k] = source_folder => d.rows[r][k] = FolderLabel
             /\ d.columns[k] = processed_timestamp
                  => d.rows[r][k] = Timestamp

\* a frame with a row, a column of the file's own and a column that was
\* missing from the file
RowAlignmentWitness ==
  \E n \in DOMAIN dataframes :
    LET d == dataframes[n]
    IN  /\ d.rows # <<>>
        /\ \E k \in DOMAIN d.columns :
             /\ d.columns[k] \in Range(d.new_cols)
             /\ d.rows[1][k] # NULL
        /\ \E k \in DOMAIN d.columns :
             /\ d.columns[k] \notin Range(d.new_cols) \cup ProvenanceCols
             /\ d.rows[1][k] = NULL


\* build_mapping left the header raw unmapped: its entry is raw itself, and
\* raw is no field of the schema
PassThrough(raw) ==
  /\ raw \in DOMAIN mapping
  /\ mapping[raw] = raw
  /\ raw \notin Range(UNIFIED_SCHEMA)

\* C12: a header that build_mapping left unmapped is a column of the frame
\* of its file, named sanitize_column_name of the header, and the column
\* holds the cells the file has under that header.
UnmappedSurfaced ==
  \A n \in DOMAIN dataframes :
    LET d == dataframes[n]
    IN  \A i \in DOMAIN d.raw :
          PassThrough(d.raw[i])
            => \E k \in DOMAIN d.columns :
                 /\ d.columns[k] = sanitize_column_name(d.raw[i])
                 /\ \A r \in DOMAIN d.rows :
                      \E q \in DOMAIN FileRows(d.file) :
                        d.rows[r][k] = FileRows(d.file)[q][i]


(***************************************************************************)
(* Properties of the whole run, under SpecRun.                             *)
(***************************************************************************)
\* the rows of the destination table that this run inserted: each slice is
\* df.iloc[start_idx:end_idx] of the frame upload_to_mysql works on
PersistedRows ==
  Concat([n \in DOMAIN table.slices |->
            SubSeq(UploadFrame.rows, table.slices[n][1] + 1,
                   table.slices[n][2])],
         1, Len(table.slices))

\* the position of the column named c in the destination table
TableColumnsNamed(c) == {k \in DOMAIN table.columns : table.columns[k] = c}

\* the corpus is the two files of the header variants of "Shipper Name",
\* both were discovered and extracted, and no statement or insert failed
MergeScenario ==
  /\ Len(disk) = 2
  /\ Range(disk) = {<<H_ShipperName>>, <<H_shipper_name>>}
  /\ Len(dataframes) = 2
  /\ \A n \in DOMAIN db_ops : db_ops[n].ok

\* C13: at the end of a run on the two files of the variants "Shipper Name"
\* and "shipper_name ", with both files extracted and every insert
\* succeeding, the table has one column shipper_name, that column holds the
\* values of both files, no other column of the schema holds a value, and
\* the table has as many rows as the two files have data rows.
EndToEndMerge ==
  (pc = "done" /\ MergeScenario) =>
    LET name == sanitize_column_name(H_ShipperName)
        cols == TableColumnsNamed(name)
    IN  /\ table.exists /\ table.old_rows = 0
        /\ Cardinality(cols) = 1
        /\ \A k \in cols :
             {PersistedRows[r][k] : r \in DOMAIN PersistedRows}
               = {CellText(f, r, 1) : f \in {1, 2}, r \in 1..MaxRows}
        /\ \A k \in DOMAIN table.columns : \A r \in DOMAIN PersistedRows :
             table.columns[k] \notin ProvenanceCols \cup {name}
               => PersistedRows[r][k] = NULL
        /\ Len(PersistedRows) = Len(FileRows(1)) + Len(FileRows(2))
        /\ reported = <<Len(PersistedRows), Len(PersistedRows)>>

EndToEndMergeWitness ==
  /\ pc = "done" /\ MergeScenario
  /\ Len(PersistedRows) = 2 * MaxRows


\* the positions of main after the loop over the files
AfterProcess ==
  {"combine", "upload", "create", "loop", "summary", "done", "raised"}

\* C17: a run with the connection parameters, the input folder, a
\* discovered file and a frame with rows does not end in an exception that
\* nothing catches, whatever fails on the way; it goes on to its final
\* summary.
RunCompletion ==
  (creds /\ folder_exists /\ excel_files # <<>> /\ dataframes # <<>>)
    => pc # "raised"

\* C18: a run that ends by sys.exit(1) has issued no statement against the
\* destination table and has left the table as it was; a run without
\* credentials or without the input folder gets no further than its
\* checks, and a run is past the loop over the files and not at exit only
\* with a discovered file and a frame.
FatalLeavesUntouched ==
  /\ pc = "exit1" => db_ops = <<>> /\ table = OldTable
  /\ ~creds => pc \in {"start", "exit1"}
  /\ ~folder_exists => pc \in {"start", "folder", "exit1"}
  /\ pc \in AfterProcess => excel_files # <<>> /\ dataframes # <<>>

\* a run with credentials, folder and discovered files that ended by
\* sys.exit(1) because no file gave a frame with rows
FatalLeavesUntouchedWitness ==
  /\ pc = "exit1" /\ creds /\ folder_exists
  /\ excel_files # <<>> /\ pi > Len(excel_files) /\ dataframes = <<>>

\* the rows of the combined dataset that carry the name of file f
RowsFrom(f) ==
  LET k == SetMin({j \in DOMAIN combined_df.columns :
                     combined_df.columns[j] = source_file})
      OfFile(row) == row[k] = FileName(f)
  IN  SelectSeq(combined_df.rows, OfFile)

RECURSIVE RowsOfFrames(_)
RowsOfFrames(n) ==
  IF n = 0 THEN 0 ELSE Len(dataframes[n].rows) + RowsOfFrames(n - 1)

\* C19: a file for which process_file raised has no frame and no row in the
\* combined dataset; the rows of every other file are in the combined
\* dataset as the extraction of that file alone gives them; and main
\* leaves the loop only after the last file.  The combined dataset is
\* looked at when main has built it: nothing after that assigns it.
FailureContained ==
  /\ \A n \in DOMAIN dataframes : dataframes[n].file \notin failed
  /\ pc \in AfterProcess => pi = Len(excel_files) + 1
  /\ pc = "upload" =>
       /\ \A f \in failed : RowsFrom(f) = <<>>
       /\ \A n \in DOMAIN dataframes :
            RowsFrom(dataframes[n].file)
              = DropDuplicateColumns(
                  Extract(dataframes[n].file, mapping, final_cols)).rows
       /\ Len(combined_df.rows) = RowsOfFrames(Len(dataframes))

\* the combined dataset of a run in which process_file raised for a file
\* and a file after it gave a frame
FailureContainedWitness ==
  /\ pc = "upload"
  /\ \E i \in DOMAIN excel_files, j \in DOMAIN excel_files :
       /\ i < j
       /\ excel_files[i] \in failed
       /\ \E n \in DOMAIN dataframes : dataframes[n].file = excel_files[j]
       /\ RowsFrom(excel_files[j]) # <<>>

\* the statements issued so far, by their kind
OpsIssued(kind) == {n \in DOMAIN db_ops : db_ops[n].op = kind}

\* C20: DROP TABLE comes before CREATE TABLE, CREATE TABLE before the first
\* insert, and no DROP or CREATE after an insert; the batch loop runs on a
\* table dropped and created by this run, and at the end of the run the
\* table holds no row of an earlier run, only slices of this run's dataset.
DestructiveReplaceOrdered ==
  /\ \A n \in OpsIssued("CREATE") :
       \E m \in OpsIssued("DROP") : m < n /\ db_ops[m].ok
  /\ \A n \in OpsIssued("INSERT") :
       /\ \E m \in OpsIssued("CREATE") : m < n /\ db_ops[m].ok
       /\ \A m \in DOMAIN db_ops : m > n => db_ops[m].op = "INSERT"
  /\ pc \in {"loop", "summary", "done"} =>
       /\ Cardinality(OpsIssued("DROP")) = 1
       /\ Cardinality(OpsIssued("CREATE")) = 1
       /\ table.exists /\ table.old_rows = 0
       /\ \A n \in DOMAIN table.slices :
            /\ 0 <= table.slices[n][1]
            /\ table.slices[n][1] < table.slices[n][2]
            /\ table.slices[n][2] <= total_rows

\* the end of a run that found the table of an earlier run and inserted
\* rows of its own
DestructiveReplaceWitness ==
  /\ pc = "done"
  /\ \E n \in OpsIssued("INSERT") : db_ops[n].ok
  /\ table.old_rows = 0 /\ table.slices # <<>>

(***************************************************************************)
(* Properties of the type decision, under SpecTypes.                       *)
(***************************************************************************)
\* C14: a column with n >= 1 non-null values in the sample, k of the first
\* min(n, 100) parsing as numbers, is DOUBLE exactly when k / min(n, 100)
\* is more than 4/5: 85 of 100 is DOUBLE, 75 of 100 and 80 of 100 are not.
NumericThreshold ==
  (t_pc = "done" /\ t_n >= 1) =>
    LET m == IF t_n < 100 THEN t_n ELSE 100
    IN  /\ t_type = <<"DOUBLE">> <=> 5 * t_numeric > 4 * m
        /\ (m = 100 /\ t_numeric = 85) => t_type = <<"DOUBLE">>
        /\ (m = 100 /\ t_numeric \in {75, 80}) => t_type # <<"DOUBLE">>

\* a column with exactly 80 of 100 values parsing has been given a text type
NumericThresholdWitness ==
  /\ t_pc = "done" /\ t_n = 100 /\ t_numeric = 80
  /\ t_type # <<"DOUBLE">>


(***************************************************************************)
(* Properties of the batch loop, under SpecUpload and FairSpecUpload.      *)
(***************************************************************************)
BatchIndexes == 0..(batches - 1)

\* the rows of batch b
BatchRows(b) == EndIdx(b, total_rows) - StartIdx(b)

AttemptsOf(b) == {n \in DOMAIN attempts : attempts[n].batch = b}

\* every attempt of batch b failed
BatchFailed(b) ==
  AttemptsOf(b) # {} /\ \A n \in AttemptsOf(b) : ~attempts[n].ok

RECURSIVE RowsOfBatches(_)
RowsOfBatches(B) ==
  IF B = {} THEN 0
  ELSE LET b == CHOOSE x \in B : TRUE
       IN  BatchRows(b) + RowsOfBatches(B \ {b})

\* C15: the final report of upload_to_mysql gives the number of rows of the
\* dataset less the rows of the batches whose every attempt failed; a batch
\* that was inserted was inserted once, and the count is the number of rows
\* in the table.
BatchDurabilityCount ==
  pc = "summary" =>
    /\ reported[2] = total_rows
    /\ reported[1] =
         total_rows
           - RowsOfBatches({b \in BatchIndexes : BatchFailed(b)})
    /\ \A b \in BatchIndexes :
         Cardinality({n \in AttemptsOf(b) : attempts[n].ok}) <= 1
    /\ reported[1] =
         RowsOfBatches({b \in BatchIndexes :
                          <<StartIdx(b), EndIdx(b, total_rows)>>
                            \in Range(table.slices)})

\* the report of a load in which one batch failed for good and a batch
\* after it was inserted
BatchDurabilityWitness ==
  /\ pc = "summary"
  /\ \E b \in BatchIndexes, c \in BatchIndexes :
       b < c /\ BatchFailed(b) /\ ~BatchFailed(c)
  /\ reported[1] < total_rows /\ reported[1] > 0

\* the attempts made so far are in the order of the batches, and every
\* batch before the one the loop is at has been attempted
AttemptsInOrder ==
  /\ \A n \in DOMAIN attempts : \A m \in DOMAIN attempts :
       n < m => attempts[n].batch <= attempts[m].batch
  /\ \A b \in BatchIndexes : b < batch_num => AttemptsOf(b) # {}

\* C16: the attempts are always in the order of the batches, and the loop
\* comes to its final report with every batch attempted at least once,
\* whatever the outcome of each attempt.
EveryBatchAttempted ==
  /\ []AttemptsInOrder
  /\ <>(pc = "summary" /\ \A b \in BatchIndexes : AttemptsOf(b) # {})

\* the final report after a batch that failed MAX_RETRIES times and was
\* followed by an attempt of the next batch
EveryBatchAttemptedWitness ==
  /\ pc = "summary"
  /\ \E b \in BatchIndexes :
       /\ BatchFailed(b) /\ Cardinality(AttemptsOf(b)) = MAX_RETRIES
       /\ b + 1 \in BatchIndexes /\ AttemptsOf(b + 1) # {}


(***************************************************************************)
(* The final column set.                                                   *)
(***************************************************************************)
\* C21: the final column set of main holds no name twice, so that each
\* field of UNIFIED_SCHEMA has a destination column of its own.
FinalColumnsDistinct ==
  \A i \in DOMAIN final_cols, j \in DOMAIN final_cols :
    final_cols[i] = final_cols[j] => i = j


(***************************************************************************)
(* The sample of the type decision, under SpecSample.                      *)
(***************************************************************************)
\* the row of the dataset at which run r of the column starts
StartOfRun(r) == 1 + RowsOfRuns(SubSeq(c_df, 1, r - 1))

\* run r holds a value and has a row among the first k rows of the dataset
ValueWithin(r, k) == c_df[r].cell # NULL /\ StartOfRun(r) <= k

\* the column was given the type of a column without values, lines 267-269
DecidedEmpty == t_pc = "done" /\ t_n = 0

\* C22: the type of a column is decided from its non-null values over the
\* whole combined dataset, so that a column is decided as empty (TEXT) only
\* if no row of the dataset holds a value in it.
SampleOfWholeDataset ==
  t_pc = "done" =>
    (DecidedEmpty <=> \A r \in DOMAIN c_df : c_df[r].cell = NULL)

\* C22, amended: the type of a column is decided from its non-null values
\* among the first min(1000, T) rows of the dataset: their number is the
\* number of such rows, the column is decided as empty exactly if none of
\* these rows holds a value, and a numeric or a sized text type has a
\* value of its kind among these rows.
SampleOfHeadRows ==
  t_pc = "done" =>
    LET Sampled(r) == ValueWithin(r, SAMPLE_ROWS)
        RowsIn(r) == Min2(c_df[r].n, SAMPLE_ROWS - StartOfRun(r) + 1)
        Counted(r) == IF Sampled(r) THEN RowsIn(r) ELSE 0
        Total == RowsOfRuns([r \in DOMAIN c_df |->
                               [n |-> Counted(r), cell |-> NULL]])
    IN  /\ t_n = Total
        /\ DecidedEmpty <=> ~ \E r \in DOMAIN c_df : Sampled(r)
        /\ t_type = <<"DOUBLE">> =>
             \E r \in DOMAIN c_df :
               Sampled(r) /\ ParsesAsFloat(c_df[r].cell)
        /\ t_type[1] = "VARCHAR" =>
             \E r \in DOMAIN c_df :
               Sampled(r) /\ ~ParsesAsFloat(c_df[r].cell)

\* a column without a value in its first 1000 rows and a value after them
SampleOfHeadRowsWitness ==
  /\ DecidedEmpty
  /\ RowsOfRuns(c_df) > SAMPLE_ROWS
  /\ \E r \in DOMAIN c_df : c_df[r].cell # NULL


(***************************************************************************)
(* The retries of the batch loop, under SpecUpload.                        *)
(***************************************************************************)
\* batch b is over at attempt n: an attempt of b before n succeeded, or
\* MAX_RETRIES attempts of b before n failed
SettledBefore(b, n) ==
  LET earlier == {m \in AttemptsOf(b) : m < n}
  IN  \/ \E m \in earlier : attempts[m].ok
      \/ Cardinality({m \in earlier : ~attempts[m].ok}) = MAX_RETRIES

\* C23: no batch has more than MAX_RETRIES attempts, and at the final
\* report every batch has at least one; no attempt of a batch follows an
\* attempt of it that succeeded; and an attempt of batch b + 1 is made only
\* after batch b succeeded or failed MAX_RETRIES times.
BoundedRetry ==
  /\ \A b \in BatchIndexes :
       /\ Cardinality(AttemptsOf(b)) <= MAX_RETRIES
       /\ (pc = "summary" \/ b < batch_num) => Cardinality(AttemptsOf(b)) >= 1
       /\ \A n \in AttemptsOf(b) : \A m \in AttemptsOf(b) :
            (attempts[n].ok /\ m >= n) => m = n
  /\ \A n \in DOMAIN attempts :
       /\ attempts[n].batch \in BatchIndexes
       /\ attempts[n].batch > 0 => SettledBefore(attempts[n].batch - 1, n)

\* the final report of a load in which a batch was inserted at its second
\* attempt and another batch failed MAX_RETRIES times
BoundedRetryWitness ==
  /\ pc = "summary"
  /\ \E b \in BatchIndexes :
       /\ Cardinality(AttemptsOf(b)) = 2
       /\ \E n \in AttemptsOf(b) : attempts[n].ok
  /\ \E b \in BatchIndexes :
       BatchFailed(b) /\ Cardinality(AttemptsOf(b)) = MAX_RETRIES


(***************************************************************************)
(* The batches of the batch loop, under SpecUpload.                        *)
(***************************************************************************)
\* the rows [start_idx, end_idx) of batch b
BatchRange(b) == <<StartIdx(b), EndIdx(b, total_rows)>>

\* the batches are ceil(T/B) ranges that follow one another from row 0 to
\* row T, none empty, none of more than B rows, all but the last of B rows;
\* and what was inserted is such ranges, each once and in their order
PartitionOfRows ==
  /\ (batches - 1) * BATCH_SIZE < total_rows
  /\ total_rows <= batches * BATCH_SIZE
  /\ \A b \in BatchIndexes :
       LET lo == BatchRange(b)[1]
           hi == BatchRange(b)[2]
       IN  /\ lo = (IF b = 0 THEN 0 ELSE BatchRange(b - 1)[2])
           /\ lo < hi /\ hi - lo <= BATCH_SIZE
           /\ b < batches - 1 => hi - lo = BATCH_SIZE
           /\ b = batches - 1 => hi = total_rows
  /\ \A n \in DOMAIN table.slices :
       /\ \E b \in BatchIndexes : table.slices[n] = BatchRange(b)
       /\ \A m \in DOMAIN table.slices :
            n < m => table.slices[n][2] <= table.slices[m][1]

\* C24: a dataset of T rows is split into ceil(T/B) batches, the ranges
\* [i*B, min((i+1)*B, T)) of its rows: contiguous, disjoint, not empty, of
\* at most B rows and of B rows but for the last, covering each row once;
\* and no step of the loader changes the dataset or its number of rows.
BatchPartition ==
  /\ []PartitionOfRows
  /\ [][combined_df' = combined_df /\ total_rows' = total_rows]_vars

\* the final report of a load of MaxBatches batches, the last of one row,
\* all inserted
BatchPartitionWitness ==
  /\ pc = "summary"
  /\ batches = MaxBatches
  /\ BatchRows(batches - 1) = 1
  /\ Len(table.slices) = batches


(***************************************************************************)
(* The numbering of dedupe_columns, under SpecDedupe.                      *)
(***************************************************************************)
\* the occurrences of the name at position i of the input before position i
EarlierOccurrences(i) == {j \in 1..(i - 1) : d_cols[j] = d_cols[i]}

\* C25: at every iteration the output is as long as the part of the input
\* read so far; its entry i is the input name at i if that name did not
\* occur before i, and the name with "_k" for its k-th later occurrence;
\* so entry i depends on the input up to i only and the order is kept.
DedupeNumbering ==
  /\ Len(d_out) = d_i - 1
  /\ \A i \in DOMAIN d_out :
       LET k == Cardinality(EarlierOccurrences(i))
       IN  d_out[i] = IF k = 0 THEN d_cols[i]
                      ELSE d_cols[i] \o <<"_">> \o DecimalStr(k)

\* the end of the loop on a list of MaxCols names in which a name is met
\* again after another name
DedupeNumberingWitness ==
  /\ DedupeDone
  /\ Len(d_cols) = MaxCols
  /\ \E i \in DOMAIN d_cols :
       /\ Cardinality(EarlierOccurrences(i)) >= 1
       /\ i - 1 \notin EarlierOccurrences(i)


(***************************************************************************)
(* The size of a text column, under SpecTypes.                             *)
(***************************************************************************)
\* the column has values in the sample and was not decided numeric
DecidedText == t_pc = "done" /\ t_n > 0 /\ t_type # <<"DOUBLE">>

\* C26: a column that is not numeric and whose longest sampled value has L
\* characters is TEXT if L = 0 or L >= 255, and else VARCHAR(n) where n is
\* the integer part of 1.2 * L, raised to 50 and cut at 255; so n is from
\* 50 to 255 and no sampled value is longer than n.
TextSizing ==
  DecidedText =>
    IF t_max = 0 \/ t_max >= 255 THEN t_type = <<"TEXT">>
    ELSE /\ Len(t_type) = 2 /\ t_type[1] = "VARCHAR"
         /\ \E f \in 0..(2 * t_max) :
              /\ 5 * f <= 6 * t_max /\ 6 * t_max < 5 * (f + 1)
              /\ t_type[2] = (IF f < 50 THEN 50 ELSE IF f > 255 THEN 255 ELSE f)
         /\ 50 <= t_type[2] /\ t_type[2] <= 255
         /\ t_type[2] >= t_max

\* a text column sized above the floor and below the limit by the factor
TextSizingWitness ==
  /\ DecidedText
  /\ t_type = <<"VARCHAR", 51>>
  /\ t_max = 43

=============================================================================
